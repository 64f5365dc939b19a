---------------------- MODULE ReleaseCutoverProofs ----------------------
(***************************************************************************)
(* Proofs about ReleaseCutover, for any versions, published views and      *)
(* number of sessions, any of which may stop at any statement.  Whatever   *)
(* overlaps: the type invariant, that a registered candidate is never      *)
(* replaced by another one, and that a recorded success is whole.  Under   *)
(* the discipline each needs, which is all that is assumed: that a retired *)
(* version stays out, that the old path stays available, that the promise  *)
(* of ReleasePointers is kept, and that files leave everything whole.      *)
(***************************************************************************)
EXTENDS ReleaseCutover, FiniteSetTheorems, TLAPS

\* Every kind of file a session opens is a script.
LEMMA OpenType ==
  ASSUME TypeOK, NEW s \in Session, NEW kind, NEW step, NEW from, NEW to,
         Open(s, kind, step, from, to),
         [kind |-> kind, step |-> step, from |-> from, to |-> to, shown |-> 0] \in Script
  PROVE  script' \in [Session -> Script \cup {NoScript}]
BY DEF TypeOK, Open

\* Closing a file keeps the table of sessions well typed.
LEMMA CloseType ==
  ASSUME TypeOK, NEW s \in Session, Close(s)
  PROVE  script' \in [Session -> Script \cup {NoScript}]
BY DEF TypeOK, Close

\* A file at a step of a release is a release file, and says whether its views
\* have been switched.
LEMMA ReleaseScript ==
  ASSUME TypeOK, NEW s \in Session, script[s].kind \in ReleaseKind
  PROVE  /\ script[s].from \in Version /\ script[s].to \in Version
         /\ script[s].step \in {"preflight", "edge", "publish"} => script[s] \in OpenRelease
         /\ script[s].step \notin {"preflight", "edge", "publish"} =>
              script[s] \in ShownRelease
<1>1. script[s] \in Script \cup {NoScript}
  BY DEF TypeOK
<1>2. script[s] # NoScript
  BY DEF NoScript, ReleaseKind
<1>3. script[s] \notin VersionScript /\ script[s] \notin Decommission
  BY DEF VersionScript, Decommission, ReleaseKind
<1>4. script[s] \in OpenRelease \/ script[s] \in ShownRelease
  BY <1>1, <1>2, <1>3 DEF Script
<1> QED
  BY <1>4 DEF OpenRelease, ShownRelease

\* A registration names a version.
LEMMA RegisterScript ==
  ASSUME TypeOK, NEW s \in Session, script[s].kind = "register"
  PROVE  script[s] \in VersionScript /\ script[s].to \in Version
<1>1. script[s] \in Script \cup {NoScript}
  BY DEF TypeOK
<1>2. script[s] \in VersionScript
  BY <1>1 DEF Script, NoScript, OpenRelease, ShownRelease, Decommission, ReleaseKind
<1> QED
  BY <1>2 DEF VersionScript

-----------------------------------------------------------------------------
\* The type invariant, one step per action

\* Every step of the system keeps the types.
LEMMA TypeStep ==
  ASSUME TypeOK, [Next]_vars
  PROVE  TypeOK'
<1> USE VersionAssumption, ViewAssumption
<1>1. ASSUME NEW s \in Session, NEW v \in Version, CheckCandidate(s, v)
      PROVE  TypeOK'
  <2>1. [kind |-> "register", step |-> "dataset", from |-> NoVersion, to |-> v,
         shown |-> 0] \in Script
    BY DEF Script, VersionScript
  <2>2. script' \in [Session -> Script \cup {NoScript}]
    BY <1>1, <2>1, OpenType DEF CheckCandidate
  <2> QED
    BY <1>1, <2>2 DEF TypeOK, CheckCandidate, pointers
<1>2. ASSUME NEW s \in Session, MergeDataset(s)
      PROVE  TypeOK'
  <2>1. script[s] \in VersionScript /\ script[s].to \in Version
    BY <1>2, RegisterScript DEF MergeDataset, At
  <2>2. [script[s] EXCEPT !.step = "version"] \in Script
    BY <2>1 DEF VersionScript, Script
  <2>3. script' \in [Session -> Script \cup {NoScript}]
    BY <1>2, <2>2 DEF MergeDataset, GoTo, TypeOK
  <2> QED
    BY <1>2, <2>1, <2>3 DEF TypeOK, MergeDataset
<1>3. ASSUME NEW s \in Session, MergeVersion(s)
      PROVE  TypeOK'
  <2>1. script' \in [Session -> Script \cup {NoScript}]
    BY <1>3, CloseType DEF MergeVersion
  <2>2. status' \in [Version -> {"absent", "DEPLOYED", "ACTIVE", "RETIRED"}]
    BY <1>3 DEF MergeVersion, TypeOK
  <2> QED
    BY <1>3, <2>1, <2>2 DEF TypeOK, MergeVersion, pointers
<1>4. ASSUME NEW s \in Session, NEW kind \in ReleaseKind, NEW from \in Version,
             NEW to \in Version, StartRelease(s, kind, from, to)
      PROVE  TypeOK'
  <2>1. [kind |-> kind, step |-> "preflight", from |-> from, to |-> to, shown |-> 0]
           \in Script
    BY DEF Script, OpenRelease
  <2>2. script' \in [Session -> Script \cup {NoScript}]
    BY <1>4, <2>1, OpenType DEF StartRelease
  <2> QED
    BY <1>4, <2>2 DEF TypeOK, StartRelease, pointers
<1>5. ASSUME NEW s \in Session, ReadReadiness(s) \/ CheckEdge(s) \/ CheckRollback(s)
      PROVE  TypeOK'
  <2>1. script[s] \in OpenRelease
    BY <1>5, ReleaseScript DEF ReadReadiness, CheckEdge, CheckRollback, At, ReleaseKind
  <2>2. PICK step \in {"edge", "publish"} : GoTo(s, step)
    BY <1>5 DEF ReadReadiness, CheckEdge, CheckRollback
  <2>3. [script[s] EXCEPT !.step = step] \in Script
    BY <2>1 DEF OpenRelease, Script
  <2>4. script' \in [Session -> Script \cup {NoScript}]
    BY <2>2, <2>3 DEF GoTo, TypeOK
  <2> QED
    BY <1>5, <2>4 DEF TypeOK, ReadReadiness, CheckEdge, CheckRollback, pointers
<1>6. ASSUME NEW s \in Session, PublishView(s)
      PROVE  TypeOK'
  <2> DEFINE i == script[s].shown + 1
             next == [script[s] EXCEPT !.shown = i,
                        !.step = IF i = ViewCount THEN "statuses" ELSE @]
  <2>1. script[s] \in OpenRelease /\ script[s].to \in Version
    BY <1>6, ReleaseScript DEF PublishView, At
  <2>2. i \in 1..ViewCount
    BY <2>1 DEF OpenRelease
  <2>3. next \in Script
    <3>1. CASE i = ViewCount
      BY <2>1, <3>1 DEF OpenRelease, ShownRelease, Script
    <3>2. CASE i # ViewCount
      <4>1. i \in 0..(ViewCount - 1)
        BY <2>2, <3>2
      <4>2. next = [script[s] EXCEPT !.shown = i, !.step = script[s].step]
        BY <3>2
      <4>3. next \in OpenRelease
        BY <2>1, <4>1, <4>2 DEF OpenRelease
      <4> QED
        BY <4>3 DEF Script
    <3> QED
      BY <3>1, <3>2
  <2>4. script' = [script EXCEPT ![s] = next]
    BY <1>6 DEF PublishView, TypeOK
  <2>5. script' \in [Session -> Script \cup {NoScript}]
    BY <2>3, <2>4 DEF TypeOK
  <2>6. view' \in [1..ViewCount -> Version]
    BY <1>6, <2>1 DEF PublishView, TypeOK
  <2> QED
    BY <1>6, <2>5, <2>6 DEF TypeOK, PublishView, pointers
<1>7. ASSUME NEW s \in Session,
             SwitchStatuses(s) \/ MovePointers(s) \/ RetireRuntime(s) \/ CheckPostflight(s)
      PROVE  TypeOK'
  <2>1. script[s] \in ShownRelease /\ script[s].to \in Version
    BY <1>7, ReleaseScript
       DEF SwitchStatuses, MovePointers, RetireRuntime, CheckPostflight, At
  <2>2. PICK step \in {"pointers", "retire", "postflight", "verified"} : GoTo(s, step)
    BY <1>7 DEF SwitchStatuses, MovePointers, RetireRuntime, CheckPostflight
  <2>3. [script[s] EXCEPT !.step = step] \in Script
    BY <2>1 DEF ShownRelease, Script
  <2>4. script' \in [Session -> Script \cup {NoScript}]
    BY <2>2, <2>3 DEF GoTo, TypeOK
  <2>5. status' \in [Version -> {"absent", "DEPLOYED", "ACTIVE", "RETIRED"}]
    BY <1>7 DEF SwitchStatuses, MovePointers, RetireRuntime, CheckPostflight, TypeOK
  <2>6. /\ active' \in Version /\ candidate' \in Version \cup {NoVersion}
        /\ served' \subseteq Version
    BY <1>7, <2>1
       DEF SwitchStatuses, MovePointers, RetireRuntime, CheckPostflight, TypeOK, pointers
  <2> QED
    BY <1>7, <2>4, <2>5, <2>6
       DEF SwitchStatuses, MovePointers, RetireRuntime, CheckPostflight, TypeOK
<1>8. ASSUME NEW s \in Session, RecordSuccess(s) \/ SetLifecycle(s) \/ RetireVersions(s)
      PROVE  TypeOK'
  <2>1. script' \in [Session -> Script \cup {NoScript}]
    BY <1>8, CloseType DEF RecordSuccess, SetLifecycle, RetireVersions
  <2>2. status' \in [Version -> {"absent", "DEPLOYED", "ACTIVE", "RETIRED"}]
    BY <1>8 DEF RecordSuccess, SetLifecycle, RetireVersions, TypeOK
  <2>3. lifecycle' \in {"ACTIVE", "PAUSED", "DECOMMISSIONED"}
    BY <1>8 DEF RecordSuccess, SetLifecycle, RetireVersions, TypeOK
  <2> QED
    BY <1>8, <2>1, <2>2, <2>3 DEF RecordSuccess, SetLifecycle, RetireVersions, TypeOK, pointers
<1>9. ASSUME NEW s \in Session, NEW kind \in LifecycleKind, NEW v \in Version,
             StartLifecycle(s, kind, v)
      PROVE  TypeOK'
  <2>1. [kind |-> kind, step |-> "dataset", from |-> NoVersion, to |-> v, shown |-> 0]
           \in Script
    BY <1>9 DEF StartLifecycle, Script, VersionScript
  <2>2. script' \in [Session -> Script \cup {NoScript}]
    BY <1>9, <2>1, OpenType DEF StartLifecycle
  <2> QED
    BY <1>9, <2>2 DEF TypeOK, StartLifecycle, pointers
<1>10. ASSUME NEW s \in Session, SuspendAll(s)
       PROVE  TypeOK'
  <2>1. [kind |-> "decommission", step |-> "dataset", from |-> NoVersion,
         to |-> NoVersion, shown |-> 0] \in Script
    BY DEF Script, Decommission
  <2>2. script' \in [Session -> Script \cup {NoScript}]
    BY <1>10, <2>1, OpenType DEF SuspendAll
  <2> QED
    BY <1>10, <2>2 DEF TypeOK, SuspendAll, pointers
<1>11. ASSUME NEW s \in Session, WithdrawDataset(s)
       PROVE  TypeOK'
  <2>1. script[s] \in Script \cup {NoScript} /\ script[s].kind = "decommission"
    BY <1>11 DEF TypeOK, WithdrawDataset, At
  <2>2. script[s] \in Decommission
    BY <2>1 DEF Script, NoScript, OpenRelease, ShownRelease, VersionScript, ReleaseKind
  <2>3. [script[s] EXCEPT !.step = "version"] \in Script
    BY <2>2 DEF Decommission, Script
  <2>4. script' \in [Session -> Script \cup {NoScript}]
    BY <1>11, <2>3 DEF WithdrawDataset, GoTo, TypeOK
  <2> QED
    BY <1>11, <2>4 DEF TypeOK, WithdrawDataset
<1>12. ASSUME NEW s \in Session, Stop(s)
       PROVE  TypeOK'
  <2>1. script' \in [Session -> Script \cup {NoScript}]
    BY <1>12, CloseType DEF Stop
  <2>2. StoppedHalfWay(s) \subseteq {"release", "other"}
    BY DEF StoppedHalfWay
  <2> QED
    BY <1>12, <2>1, <2>2 DEF TypeOK, Stop, pointers
<1>13. CASE UNCHANGED vars
  BY <1>13 DEF TypeOK, vars
<1> QED
  BY <1>1, <1>2, <1>3, <1>4, <1>5, <1>6, <1>7, <1>8, <1>9, <1>10, <1>11, <1>12, <1>13
     DEF Next, Register, Release, Lifecycle

\* The rows of DATASET and DATASET_VERSION, the published views and the files in
\* execution keep their types, for any versions, views and number of sessions.
THEOREM CutoverTypeCorrect == Spec => []TypeOK
<1>1. Init => TypeOK
  <2> SUFFICES ASSUME Init PROVE TypeOK
    OBVIOUS
  <2> QED
    BY VersionAssumption DEF Init, TypeOK
<1>2. TypeOK /\ [Next]_vars => TypeOK'
  BY TypeStep
<1> QED
  BY <1>1, <1>2, PTL DEF Spec

-----------------------------------------------------------------------------
\* A registered candidate is never replaced by another one

\* A step of a file that keeps its kind leaves the registrations as they are.
LEMMA RegistrationsKept ==
  ASSUME CandidateInv, TypeOK', NEW s \in Session, NEW new,
         script' = [script EXCEPT ![s] = new],
         new.kind = "register" => script[s].kind = "register" /\ new.step # "dataset",
         candidate' \in {candidate, NoVersion}
  PROVE  CandidateInv'
<1>1. \A other \in Session :
        script'[other] = IF other = s THEN new ELSE script[other]
  BY DEF CandidateInv, TypeOK
<1>2. \A other \in Session :
        script'[other].kind = "register" => script[other].kind = "register"
  BY <1>1
<1>3. OneRegistration'
  BY <1>2 DEF CandidateInv, OneRegistration
<1>4. PointerFree'
  <2> SUFFICES ASSUME NEW other \in Session, script'[other].kind = "register",
                      script'[other].step = "dataset"
               PROVE  candidate' \in {script'[other].to, NoVersion}
    BY DEF PointerFree, At
  <2>1. other # s /\ script'[other] = script[other]
    BY <1>1
  <2>2. candidate \in {script[other].to, NoVersion}
    BY <2>1 DEF CandidateInv, PointerFree, At
  <2> QED
    BY <2>1, <2>2
<1> QED
  BY <1>3, <1>4 DEF CandidateInv

\* CandidateInv is inductive.
LEMMA CandidateStep ==
  ASSUME CandidateInv, [Next]_vars
  PROVE  CandidateInv'
<1> USE VersionAssumption
<1>0. TypeOK /\ TypeOK'
  BY TypeStep DEF CandidateInv
<1>1. ASSUME NEW s \in Session, NEW v \in Version, CheckCandidate(s, v)
      PROVE  CandidateInv'
  <2>1. /\ script'[s].kind = "register" /\ script'[s].to = v
        /\ \A other \in Session \ {s} : script'[other] = script[other]
    BY <1>0, <1>1 DEF CheckCandidate, Open, TypeOK
  <2>2. \A other \in Session : script[other].kind # "register"
    BY <1>1 DEF CheckCandidate
  <2>3. candidate' \in {v, NoVersion}
    BY <1>1 DEF CheckCandidate, pointers
  <2>4. OneRegistration'
    BY <2>1, <2>2 DEF OneRegistration
  <2>5. PointerFree'
    BY <2>1, <2>2, <2>3 DEF PointerFree, At
  <2> QED
    BY <1>0, <2>4, <2>5 DEF CandidateInv
<1>2. ASSUME NEW s \in Session, MergeDataset(s)
      PROVE  CandidateInv'
  <2>1. script[s].kind = "register"
    BY <1>2 DEF MergeDataset, At
  <2>2. /\ script'[s] = [script[s] EXCEPT !.step = "version"]
        /\ \A other \in Session \ {s} : script'[other] = script[other]
    BY <1>0, <1>2 DEF MergeDataset, GoTo, TypeOK
  <2>3. script[s] \in VersionScript
    BY <1>0, <2>1, RegisterScript
  <2>4. script'[s].kind = "register" /\ script'[s].step = "version"
    BY <2>1, <2>2, <2>3 DEF VersionScript
  <2>5. OneRegistration'
    BY <2>1, <2>2 , <2>4 DEF CandidateInv, OneRegistration
  <2>6. PointerFree'
    BY <2>1, <2>4, <2>5 DEF PointerFree, OneRegistration, At
  <2> QED
    BY <1>0, <2>5, <2>6 DEF CandidateInv
<1>3. ASSUME NEW s \in Session, Close(s), candidate' \in {candidate, NoVersion}
      PROVE  CandidateInv'
  <2>1. NoScript.kind # "register"
    BY DEF NoScript
  <2> QED
    BY <1>0, <1>3, <2>1, RegistrationsKept DEF Close
<1>4. ASSUME NEW s \in Session, NEW kind, NEW step, NEW from, NEW to,
             Open(s, kind, step, from, to), kind # "register", candidate' = candidate
      PROVE  CandidateInv'
  BY <1>0, <1>4, RegistrationsKept DEF Open
<1>5. ASSUME NEW s \in Session, NEW step, GoTo(s, step), script[s].kind # "register",
             candidate' \in {candidate, NoVersion}
      PROVE  CandidateInv'
  <2>1. [script[s] EXCEPT !.step = step].kind = script[s].kind
    BY <1>0 DEF TypeOK, Script, OpenRelease, ShownRelease, VersionScript, Decommission,
                NoScript
  <2>2. script' = [script EXCEPT ![s] = [script[s] EXCEPT !.step = step]]
    BY <1>0, <1>5 DEF GoTo, TypeOK
  <2> QED
    BY <1>0, <1>5, <2>1, <2>2, RegistrationsKept
<1>6. ASSUME NEW s \in Session, PublishView(s)
      PROVE  CandidateInv'
  <2> DEFINE i == script[s].shown + 1
             next == [script[s] EXCEPT !.shown = i,
                        !.step = IF i = ViewCount THEN "statuses" ELSE @]
  <2>1. script[s].kind \in ReleaseKind /\ script' = [script EXCEPT ![s] = next]
    BY <1>0, <1>6 DEF PublishView, At, TypeOK
  <2>2. script[s] \in OpenRelease
    BY <1>0, <1>6, ReleaseScript DEF PublishView, At
  <2>3. next.kind = script[s].kind
    BY <2>2 DEF OpenRelease
  <2>4. candidate' = candidate
    BY <1>6 DEF PublishView, pointers
  <2> QED
    BY <1>0, <2>1, <2>3, <2>4, RegistrationsKept DEF ReleaseKind
<1>7. CASE UNCHANGED vars
  BY <1>7 DEF CandidateInv, TypeOK, OneRegistration, PointerFree, At, vars
<1>8. ASSUME NEW s \in Session, Register(s)
      PROVE  CandidateInv'
  BY <1>1, <1>2, <1>3, <1>8 DEF Register, MergeVersion, pointers
<1>9. ASSUME NEW s \in Session, Release(s)
      PROVE  CandidateInv'
  <2>1. ASSUME NEW kind \in ReleaseKind, NEW from \in Version, NEW to \in Version,
               StartRelease(s, kind, from, to)
        PROVE  CandidateInv'
    BY <1>4, <2>1 DEF StartRelease, ReleaseKind, pointers
  <2>2. ASSUME ReadReadiness(s) \/ CheckEdge(s) \/ CheckRollback(s)
        PROVE  CandidateInv'
    <3>1. PICK step \in {"edge", "publish"} : GoTo(s, step)
      BY <2>2 DEF ReadReadiness, CheckEdge, CheckRollback
    <3>2. script[s].kind # "register" /\ candidate' = candidate
      BY <2>2 DEF ReadReadiness, CheckEdge, CheckRollback, At, pointers
    <3> QED
      BY <1>5, <3>1, <3>2
  <2>3. ASSUME SwitchStatuses(s) \/ MovePointers(s) \/ RetireRuntime(s) \/ CheckPostflight(s)
        PROVE  CandidateInv'
    <3>1. PICK step \in {"pointers", "retire", "postflight", "verified"} : GoTo(s, step)
      BY <2>3 DEF SwitchStatuses, MovePointers, RetireRuntime, CheckPostflight
    <3>2. script[s].kind # "register" /\ candidate' \in {candidate, NoVersion}
      BY <2>3
         DEF SwitchStatuses, MovePointers, RetireRuntime, CheckPostflight, At, pointers,
             ReleaseKind
    <3> QED
      BY <1>5, <3>1, <3>2
  <2>4. CASE RecordSuccess(s)
    BY <1>3, <2>4 DEF RecordSuccess, pointers
  <2> QED
    BY <1>6, <1>9, <2>1, <2>2, <2>3, <2>4 DEF Release
<1>10. ASSUME NEW s \in Session, Lifecycle(s)
       PROVE  CandidateInv'
  <2>1. ASSUME NEW kind \in LifecycleKind, NEW v \in Version, StartLifecycle(s, kind, v)
        PROVE  CandidateInv'
    BY <1>4, <2>1 DEF StartLifecycle, pointers
  <2>2. CASE SuspendAll(s)
    BY <1>4, <2>2 DEF SuspendAll, pointers
  <2>3. CASE SetLifecycle(s) \/ RetireVersions(s)
    BY <1>3, <2>3 DEF SetLifecycle, RetireVersions, pointers
  <2>4. CASE WithdrawDataset(s)
    BY <1>5, <2>4 DEF WithdrawDataset, At
  <2> QED
    BY <1>10, <2>1, <2>2, <2>3, <2>4 DEF Lifecycle
<1>11. ASSUME NEW s \in Session, Stop(s)
       PROVE  CandidateInv'
  BY <1>3, <1>11 DEF Stop, pointers
<1> QED
  BY <1>7, <1>8, <1>9, <1>10, <1>11 DEF Next

\* Between the guard of a registration file and its first MERGE the candidate
\* pointer is free or already names the version being registered, always.
THEOREM CandidateInvariant == Spec => []CandidateInv
<1>1. Init => CandidateInv
  <2> SUFFICES ASSUME Init PROVE CandidateInv
    OBVIOUS
  <2>1. TypeOK
    BY VersionAssumption DEF Init, TypeOK
  <2>2. \A s \in Session : script[s].kind # "register"
    BY DEF Init, NoScript
  <2> QED
    BY <2>1, <2>2 DEF CandidateInv, OneRegistration, PointerFree, At
<1>2. CandidateInv /\ [Next]_vars => CandidateInv'
  BY CandidateStep
<1> QED
  BY <1>1, <1>2, PTL DEF Spec

\* Whatever files any number of sessions execute, fail or lose, a registered
\* candidate is only ever replaced by NULL: registration is fail-closed as long
\* as files of the silver manifest are deployed one at a time.
THEOREM CandidateSafe == Spec => CandidateNeverOverwritten
<1> DEFINE Kept == candidate # NoVersion /\ candidate' # candidate => candidate' = NoVersion
<1>1. ASSUME CandidateInv, [Next]_vars
      PROVE  [Kept]_vars
  <2>1. CASE UNCHANGED vars
    BY <2>1
  <2>2. ASSUME NEW s \in Session, Register(s)
        PROVE  Kept
    <3>1. ASSUME NEW v \in Version, CheckCandidate(s, v)
          PROVE  Kept
      BY <3>1 DEF CheckCandidate, pointers
    <3>2. CASE MergeDataset(s)
      BY <1>1, <3>2 DEF MergeDataset, CandidateInv, PointerFree
    <3>3. CASE MergeVersion(s)
      BY <3>3 DEF MergeVersion, pointers
    <3> QED
      BY <2>2, <3>1, <3>2, <3>3 DEF Register
  <2>3. ASSUME NEW s \in Session, Release(s)
        PROVE  Kept
    BY <2>3 DEF Release, StartRelease, ReadReadiness, CheckEdge, CheckRollback, PublishView,
                SwitchStatuses, MovePointers, RetireRuntime, CheckPostflight, RecordSuccess,
                pointers
  <2>4. ASSUME NEW s \in Session, Lifecycle(s) \/ Stop(s)
        PROVE  Kept
    BY <2>4 DEF Lifecycle, StartLifecycle, SetLifecycle, SuspendAll, WithdrawDataset,
                RetireVersions, Stop, pointers
  <2> QED
    BY <1>1, <2>1, <2>2, <2>3, <2>4 DEF Next
<1> QED
  BY <1>1, CandidateInvariant, PTL DEF Spec, CandidateNeverOverwritten

-----------------------------------------------------------------------------
\* A release that succeeds is whole, however many sessions execute files

\* No release is between its first published view and its postflight.
Quiet ==
  \A s \in Session : script[s].kind \in ReleaseKind =>
    script[s].step \in {"preflight", "edge", "verified"}
Finished ==
  /\ \A i \in 1..ViewCount : view[i] = active
  /\ Versions("ACTIVE") \subseteq {active}
FinishedInv == "release" \notin interrupted /\ Quiet => Finished

\* What GoTo, Open and Close leave of the file of their session.
LEMMA Moved ==
  ASSUME TypeOK, NEW s \in Session, NEW step, GoTo(s, step)
  PROVE  /\ script'[s].kind = script[s].kind /\ script'[s].step = step
         /\ script'[s].from = script[s].from /\ script'[s].to = script[s].to
         /\ script'[s].shown = script[s].shown
         /\ \A other \in Session \ {s} : script'[other] = script[other]
<1>1. script[s] \in Script \cup {NoScript}
  BY DEF TypeOK
<1>2. script'[s] = [script[s] EXCEPT !.step = step]
      /\ \A other \in Session \ {s} : script'[other] = script[other]
  BY DEF TypeOK, GoTo
<1> QED
  BY <1>1, <1>2
     DEF Script, NoScript, OpenRelease, ShownRelease, VersionScript, Decommission

LEMMA Opened ==
  ASSUME TypeOK, NEW s \in Session, NEW kind, NEW step, NEW from, NEW to,
         Open(s, kind, step, from, to)
  PROVE  /\ script'[s].kind = kind /\ script'[s].step = step
         /\ script'[s].from = from /\ script'[s].to = to /\ script'[s].shown = 0
         /\ script[s].kind = "none" /\ script[s].step = "none"
         /\ \A other \in Session \ {s} : script'[other] = script[other]
  BY DEF TypeOK, Open, NoScript

LEMMA Closed ==
  ASSUME TypeOK, NEW s \in Session, Close(s)
  PROVE  /\ script'[s] = NoScript /\ script'[s].kind = "none" /\ script'[s].step = "none"
         /\ \A other \in Session \ {s} : script'[other] = script[other]
  BY DEF TypeOK, Close, NoScript

\* A published view is switched.
LEMMA Switched ==
  ASSUME TypeOK, NEW s \in Session, PublishView(s)
  PROVE  /\ script'[s].kind = script[s].kind
         /\ script'[s].step \in {"publish", "statuses"}
         /\ script'[s].from = script[s].from /\ script'[s].to = script[s].to
         /\ script'[s].shown = script[s].shown + 1
         /\ script[s].shown + 1 \in 1..ViewCount
         /\ view' = [view EXCEPT ![script[s].shown + 1] = script[s].to]
<1> DEFINE i == script[s].shown + 1
           next == [script[s] EXCEPT !.shown = i,
                      !.step = IF i = ViewCount THEN "statuses" ELSE @]
<1>1. script[s] \in OpenRelease /\ script[s].step = "publish"
  BY ReleaseScript DEF PublishView, At
<1>2. script'[s] = next
  BY DEF PublishView, TypeOK
<1>3. i \in 1..ViewCount
  BY <1>1, ViewAssumption DEF OpenRelease
<1>4. /\ next.kind = script[s].kind /\ next.step \in {"publish", "statuses"}
      /\ next.from = script[s].from /\ next.to = script[s].to /\ next.shown = i
  <2>1. CASE i = ViewCount
    BY <1>1, <2>1 DEF OpenRelease
  <2>2. CASE i # ViewCount
    <3>1. next = [script[s] EXCEPT !.shown = i, !.step = "publish"]
      BY <1>1, <2>2
    <3> QED
      BY <1>1, <3>1 DEF OpenRelease
  <2> QED
    BY <2>1, <2>2
<1>5. view' = [view EXCEPT ![i] = script[s].to]
  BY DEF PublishView
<1> HIDE DEF next
<1> QED
  BY <1>2, <1>3, <1>4, <1>5

\* A step of a session that is not between its views and its postflight, that
\* switches nothing and activates no version, leaves what was whole whole.
LEMMA FinishedStays ==
  ASSUME FinishedInv, NEW s \in Session,
         script[s].kind \notin ReleaseKind
           \/ script[s].step \in {"preflight", "edge", "verified"},
         \A other \in Session \ {s} : script'[other] = script[other],
         UNCHANGED <<view, active>>, Versions("ACTIVE")' \subseteq Versions("ACTIVE"),
         interrupted \subseteq interrupted'
  PROVE  FinishedInv'
<1> SUFFICES ASSUME "release" \notin interrupted', Quiet'
             PROVE  Finished'
  BY DEF FinishedInv
<1>1. Quiet
  BY DEF Quiet
<1> QED
  BY <1>1 DEF FinishedInv, Finished

\* A release that goes on is not at an end.
LEMMA Unfinished ==
  ASSUME NEW s \in Session, script'[s].kind \in ReleaseKind,
         script'[s].step \in {"publish", "statuses", "pointers", "retire", "postflight"}
  PROVE  FinishedInv'
  BY DEF FinishedInv, Quiet

\* FinishedInv is inductive: one step per action.
LEMMA FinishedStep ==
  ASSUME TypeOK, FinishedInv, [Next]_vars
  PROVE  FinishedInv'
<1>1. CASE UNCHANGED vars
  BY <1>1 DEF FinishedInv, Quiet, Finished, Versions, vars
<1>2. ASSUME NEW s \in Session, Register(s)
      PROVE  FinishedInv'
  <2>1. ASSUME NEW v \in Version, CheckCandidate(s, v)
        PROVE  FinishedInv'
    BY <2>1, Opened, FinishedStays DEF CheckCandidate, pointers, Versions, ReleaseKind
  <2>2. CASE MergeDataset(s)
    BY <2>2, Moved, FinishedStays DEF MergeDataset, At, Versions, ReleaseKind
  <2>3. CASE MergeVersion(s)
    <3>1. Versions("ACTIVE")' \subseteq Versions("ACTIVE")
      BY <2>3 DEF MergeVersion, Versions, TypeOK
    <3> QED
      BY <2>3, <3>1, Closed, FinishedStays DEF MergeVersion, At, pointers, ReleaseKind
  <2> QED
    BY <1>2, <2>1, <2>2, <2>3 DEF Register
<1>3. ASSUME NEW s \in Session, Release(s)
      PROVE  FinishedInv'
  <2>1. ASSUME NEW kind \in ReleaseKind, NEW from \in Version, NEW to \in Version,
               StartRelease(s, kind, from, to)
        PROVE  FinishedInv'
    BY <2>1, Opened, FinishedStays DEF StartRelease, pointers, Versions, ReleaseKind
  <2>2. CASE ReadReadiness(s)
    BY <2>2, Moved, FinishedStays DEF ReadReadiness, At, pointers, Versions
  <2>3. CASE CheckEdge(s) \/ CheckRollback(s) \/ SwitchStatuses(s) \/ MovePointers(s)
               \/ RetireRuntime(s)
    <3>1. PICK step \in {"publish", "pointers", "retire", "postflight"} : GoTo(s, step)
      BY <2>3 DEF CheckEdge, CheckRollback, SwitchStatuses, MovePointers, RetireRuntime
    <3>2. script[s].kind \in ReleaseKind
      BY <2>3 DEF CheckEdge, CheckRollback, SwitchStatuses, MovePointers, RetireRuntime, At,
                  ReleaseKind
    <3> QED
      BY <3>1, <3>2, Moved, Unfinished
  <2>4. CASE PublishView(s)
    BY <2>4, Switched, Unfinished DEF PublishView, At
  <2>5. CASE CheckPostflight(s)
    BY <2>5 DEF CheckPostflight, Postflight, FinishedInv, Finished, Versions, pointers
  <2>6. CASE RecordSuccess(s)
    BY <2>6, Closed, FinishedStays DEF RecordSuccess, At, pointers, Versions
  <2> QED
    BY <1>3, <2>1, <2>2, <2>3, <2>4, <2>5, <2>6 DEF Release
<1>4. ASSUME NEW s \in Session, Lifecycle(s)
      PROVE  FinishedInv'
  <2>1. ASSUME NEW kind \in LifecycleKind, NEW v \in Version, StartLifecycle(s, kind, v)
        PROVE  FinishedInv'
    BY <2>1, Opened, FinishedStays DEF StartLifecycle, pointers, Versions, ReleaseKind
  <2>2. CASE SuspendAll(s)
    BY <2>2, Opened, FinishedStays DEF SuspendAll, pointers, Versions, ReleaseKind
  <2>3. CASE SetLifecycle(s)
    BY <2>3, Closed, FinishedStays DEF SetLifecycle, At, pointers, Versions, ReleaseKind
  <2>4. CASE WithdrawDataset(s)
    BY <2>4, Moved, FinishedStays DEF WithdrawDataset, At, Versions, ReleaseKind
  <2>5. CASE RetireVersions(s)
    <3>1. Versions("ACTIVE")' \subseteq Versions("ACTIVE")
      BY <2>5 DEF RetireVersions, Versions, TypeOK
    <3> QED
      BY <2>5, <3>1, Closed, FinishedStays DEF RetireVersions, At, pointers, ReleaseKind
  <2> QED
    BY <1>4, <2>1, <2>2, <2>3, <2>4, <2>5 DEF Lifecycle
<1>5. ASSUME NEW s \in Session, Stop(s)
      PROVE  FinishedInv'
  <2>1. CASE script[s].kind \in ReleaseKind /\ script[s].step \notin {"preflight", "edge"}
    <3>1. "release" \in interrupted'
      BY <1>5, <2>1 DEF Stop, StoppedHalfWay, ReleaseKind
    <3> QED
      BY <3>1 DEF FinishedInv
  <2>2. CASE script[s].kind \notin ReleaseKind \/ script[s].step \in {"preflight", "edge"}
    BY <1>5, <2>2, Closed, FinishedStays DEF Stop, pointers, Versions
  <2> QED
    BY <2>1, <2>2
<1> QED
  BY <1>1, <1>2, <1>3, <1>4, <1>5 DEF Next

\* For any versions, published views and sessions: when nothing runs and every
\* release has recorded SUCCEEDED or stopped in its preflight, readers are served
\* the active version and no other version is ACTIVE.
THEOREM ReleaseIsWhole == Spec => []SuccessIsWhole
<1>1. Init => TypeOK /\ FinishedInv
  <2> SUFFICES ASSUME Init PROVE TypeOK /\ FinishedInv
    OBVIOUS
  <2> QED
    BY VersionAssumption DEF Init, TypeOK, FinishedInv, Finished, Versions
<1>2. TypeOK /\ FinishedInv /\ [Next]_vars => (TypeOK /\ FinishedInv)'
  BY TypeStep, FinishedStep
<1>3. FinishedInv => SuccessIsWhole
  BY DEF FinishedInv, Quiet, Finished, SuccessIsWhole, Idle, NoScript, ReleaseKind
<1> QED
  BY <1>1, <1>2, <1>3, PTL DEF Spec

-----------------------------------------------------------------------------
\* The steps of files that overlap as a discipline allows

\* Two kinds of files are never executed at the same time.
Apart(a, b) == {a, b} \notin Overlap

\* The files in execution are such as may overlap.
OverlapKept ==
  \A s, t \in Session :
    s # t /\ script[s].kind # "none" /\ script[t].kind # "none" =>
      {script[s].kind, script[t].kind} \in Overlap

Others(s) == \A t \in Session \ {s} : script'[t] = script[t]
Doing(s, kinds, steps) == script[s].kind \in kinds /\ script[s].step \in steps

\* What a step leaves of the kind of its file.
Kinds(s) ==
  \/ script'[s].kind \in {script[s].kind, "none"}
  \/ \A t \in Session : script[t].kind # "none" => {script'[s].kind, script[t].kind} \in Overlap

\* The steps that change no row and no view: they begin a file, end one, or are
\* those of a release that has moved the pointers.
Begins(s) ==
  \/ script'[s].kind \in {"none", "pause", "resume"}
  \/ script'[s].kind = "decommission" /\ script'[s].step = "dataset"
  \/ /\ script'[s].kind \in ReleaseKind /\ script'[s].step = "preflight"
     /\ script'[s].from # script'[s].to /\ script'[s].shown = 0
Finishes(s) ==
  /\ Doing(s, ReleaseKind, {"retire", "postflight"})
  /\ script'[s].kind = script[s].kind /\ script'[s].step \in {"postflight", "verified"}
  /\ script'[s].from = script[s].from /\ script'[s].to = script[s].to
  /\ script'[s].shown = script[s].shown
  /\ script'[s].step = "verified" => Versions("ACTIVE") = {script[s].to}
Resting(s) ==
  /\ UNCHANGED <<active, candidate, served, status, view>>
  /\ Begins(s) \/ Finishes(s)
  /\ interrupted' = {} =>
       /\ interrupted = {}
       /\ \/ script[s].kind \in {"none", "pause", "resume"} \/ Finishes(s)
          \/ Doing(s, ReleaseKind, {"preflight", "edge", "verified"})

\* What one session does in a step.
Does(s) ==
  \/ Resting(s)
  \/ \E v \in Version : CheckCandidate(s, v)
  \/ MergeDataset(s) \/ MergeVersion(s)
  \/ ReadReadiness(s) \/ CheckEdge(s) \/ CheckRollback(s)
  \/ PublishView(s) \/ SwitchStatuses(s) \/ MovePointers(s)
  \/ WithdrawDataset(s) \/ RetireVersions(s)

\* Only a session without a file has the kind of no file.
LEMMA NoFile ==
  ASSUME TypeOK, NEW s \in Session
  PROVE  script[s].kind = "none" <=> script[s] = NoScript
<1>1. script[s] \in Script \cup {NoScript}
  BY DEF TypeOK
<1>2. \A x \in Script : x.kind # "none"
  BY DEF Script, OpenRelease, ShownRelease, VersionScript, Decommission, ReleaseKind
<1> QED
  BY <1>1, <1>2 DEF NoScript

\* A file that begins may be executed beside all files in execution.
LEMMA OpensBeside ==
  ASSUME TypeOK, NEW s \in Session, NEW kind, NEW step, NEW from, NEW to,
         Open(s, kind, step, from, to)
  PROVE  Others(s) /\ Kinds(s)
<1>1. script'[s].kind = kind /\ Others(s)
  BY Opened DEF Others
<1> QED
  BY <1>1, NoFile DEF Kinds, Open

\* A file that goes on, or ends, keeps its kind or loses it.
LEMMA GoesOn ==
  ASSUME TypeOK, NEW s \in Session, NEW step, GoTo(s, step)
  PROVE  Others(s) /\ Kinds(s)
  BY Moved DEF Others, Kinds

LEMMA EndsAlone ==
  ASSUME TypeOK, NEW s \in Session, Close(s)
  PROVE  Others(s) /\ Kinds(s)
  BY Closed DEF Others, Kinds

\* A step of a session changes the file of no other session.
LEMMA SessionStep ==
  ASSUME TypeOK, NEW self \in Session,
         Register(self) \/ Release(self) \/ Lifecycle(self) \/ Stop(self)
  PROVE  Others(self) /\ Kinds(self) /\ Does(self)
<1>1. ASSUME NEW s \in Session, Register(s)
      PROVE  Others(s) /\ Kinds(s) /\ Does(s)
  <2>1. ASSUME NEW v \in Version, CheckCandidate(s, v)
        PROVE  Others(s) /\ Kinds(s) /\ Does(s)
    BY <2>1, OpensBeside DEF CheckCandidate, Does
  <2>2. CASE MergeDataset(s)
    BY <2>2, GoesOn DEF MergeDataset, Does
  <2>3. CASE MergeVersion(s)
    BY <2>3, EndsAlone DEF MergeVersion, Does
  <2> QED
    BY <1>1, <2>1, <2>2, <2>3 DEF Register
<1>2. ASSUME NEW s \in Session, NEW kind, NEW from, NEW to,
             StartRelease(s, kind, from, to)
      PROVE  Others(s) /\ Kinds(s) /\ Does(s)
  <2>1. Others(s) /\ Kinds(s)
    BY <1>2, OpensBeside DEF StartRelease
  <2>2. Resting(s)
    BY <1>2, Opened DEF StartRelease, Resting, Begins, pointers
  <2> QED
    BY <2>1, <2>2 DEF Does
<1>3. ASSUME NEW s \in Session, RetireRuntime(s) \/ CheckPostflight(s)
      PROVE  Others(s) /\ Kinds(s) /\ Does(s)
  <2>1. PICK step \in {"postflight", "verified"} : GoTo(s, step)
    BY <1>3 DEF RetireRuntime, CheckPostflight
  <2>2. Finishes(s)
    BY <1>3, <2>1, Moved
       DEF RetireRuntime, CheckPostflight, Postflight, Finishes, Doing, At
  <2>3. Resting(s)
    BY <1>3, <2>2 DEF RetireRuntime, CheckPostflight, Resting, pointers
  <2> QED
    BY <2>1, <2>3, GoesOn DEF Does
<1>4. ASSUME NEW s \in Session, RecordSuccess(s)
      PROVE  Others(s) /\ Kinds(s) /\ Does(s)
  <2>1. Resting(s)
    BY <1>4, Closed DEF RecordSuccess, Resting, Begins, Doing, At, pointers
  <2> QED
    BY <1>4, <2>1, EndsAlone DEF RecordSuccess, Does
<1>5. ASSUME NEW s \in Session, Release(s)
      PROVE  Others(s) /\ Kinds(s) /\ Does(s)
  <2>1. ASSUME ReadReadiness(s) \/ CheckEdge(s) \/ CheckRollback(s) \/ SwitchStatuses(s)
                 \/ MovePointers(s)
        PROVE  Others(s) /\ Kinds(s) /\ Does(s)
    <3>1. PICK step \in {"edge", "publish", "pointers", "retire"} : GoTo(s, step)
      BY <2>1 DEF ReadReadiness, CheckEdge, CheckRollback, SwitchStatuses, MovePointers
    <3> QED
      BY <2>1, <3>1, GoesOn DEF Does
  <2>2. CASE PublishView(s)
    <3>1. script'[s].kind = script[s].kind
      BY <2>2, Switched
    <3>2. Others(s)
      BY <2>2 DEF PublishView, Others, TypeOK
    <3> QED
      BY <2>2, <3>1, <3>2 DEF Kinds, Does
  <2> QED
    BY <1>2, <1>3, <1>4, <1>5, <2>1, <2>2 DEF Release
<1>6. ASSUME NEW s \in Session, Lifecycle(s)
      PROVE  Others(s) /\ Kinds(s) /\ Does(s)
  <2>1. ASSUME NEW kind, NEW v, StartLifecycle(s, kind, v)
        PROVE  Others(s) /\ Kinds(s) /\ Does(s)
    <3>1. Others(s) /\ Kinds(s)
      BY <2>1, OpensBeside DEF StartLifecycle
    <3>2. Resting(s)
      BY <2>1, Opened DEF StartLifecycle, Resting, Begins, pointers
    <3> QED
      BY <3>1, <3>2 DEF Does
  <2>2. CASE SetLifecycle(s)
    <3>1. Resting(s)
      BY <2>2, Closed DEF SetLifecycle, Resting, Begins, At, pointers
    <3> QED
      BY <2>2, <3>1, EndsAlone DEF SetLifecycle, Does
  <2>3. CASE SuspendAll(s)
    <3>1. Others(s) /\ Kinds(s)
      BY <2>3, OpensBeside DEF SuspendAll
    <3>2. Resting(s)
      BY <2>3, Opened DEF SuspendAll, Resting, Begins, pointers
    <3> QED
      BY <3>1, <3>2 DEF Does
  <2>4. CASE WithdrawDataset(s)
    BY <2>4, GoesOn DEF WithdrawDataset, Does
  <2>5. CASE RetireVersions(s)
    BY <2>5, EndsAlone DEF RetireVersions, Does
  <2> QED
    BY <1>6, <2>1, <2>2, <2>3, <2>4, <2>5 DEF Lifecycle
<1>7. ASSUME NEW s \in Session, Stop(s)
      PROVE  Others(s) /\ Kinds(s) /\ Does(s)
  <2>1. /\ script'[s].kind = "none" /\ interrupted' = interrupted \cup StoppedHalfWay(s)
        /\ UNCHANGED <<active, candidate, served, status, view>>
    BY <1>7, Closed DEF Stop, pointers
  <2>2. script[s] \in Script
    BY <1>7 DEF Stop, TypeOK
  <2>3. StoppedHalfWay(s) = {} =>
          script[s].kind \in {"pause", "resume"} \/ Doing(s, ReleaseKind, {"preflight", "edge"})
    BY <2>2
       DEF StoppedHalfWay, Doing, Script, OpenRelease, ShownRelease, VersionScript, Decommission,
           ReleaseKind
  <2>4. Resting(s)
    BY <2>1, <2>3 DEF Resting, Begins, Doing
  <2> QED
    BY <1>7, <2>4, EndsAlone DEF Stop, Does
<1> QED
  BY <1>1, <1>5, <1>6, <1>7

\* Every step of the system is a step of one session.
LEMMA StepForms ==
  ASSUME TypeOK, Next
  PROVE  \E s \in Session : Others(s) /\ Kinds(s) /\ Does(s)
BY SessionStep DEF Next

\* OverlapKept is inductive.
LEMMA OverlapStep ==
  ASSUME TypeOK, OverlapKept, [Next]_vars
  PROVE  OverlapKept'
<1>1. CASE UNCHANGED vars
  BY <1>1 DEF OverlapKept, vars
<1>2. CASE Next
  <2>1. PICK s \in Session : Others(s) /\ Kinds(s)
    BY <1>2, StepForms
  <2>2. SUFFICES ASSUME NEW t \in Session, NEW u \in Session, t # u,
                        script'[t].kind # "none", script'[u].kind # "none"
                 PROVE  {script'[t].kind, script'[u].kind} \in Overlap
    BY DEF OverlapKept
  <2>3. CASE t # s /\ u # s
    BY <2>1, <2>2, <2>3 DEF OverlapKept, Others
  <2>4. CASE t = s
    BY <2>1, <2>2, <2>4 DEF OverlapKept, Others, Kinds
  <2>5. CASE u = s
    <3>1. {script'[u].kind, script'[t].kind} \in Overlap
      BY <2>1, <2>2, <2>5 DEF OverlapKept, Others, Kinds
    <3>2. {script'[u].kind, script'[t].kind} = {script'[t].kind, script'[u].kind}
      OBVIOUS
    <3> QED
      BY <3>1, <3>2
  <2> QED
    BY <2>3, <2>4, <2>5
<1> QED
  BY <1>1, <1>2

\* Files of kinds that are kept apart are one file.
LEMMA KeptApart ==
  ASSUME OverlapKept, NEW s \in Session, NEW t \in Session, NEW a, NEW b, Apart(a, b),
         a # "none", b # "none", script[s].kind = a, script[t].kind = b
  PROVE  s = t
BY DEF OverlapKept, Apart

\* Initially nothing runs.
LEMMA OverlapInit ==
  ASSUME Init
  PROVE  TypeOK /\ OverlapKept /\ \A s \in Session : script[s].kind = "none"
BY VersionAssumption DEF Init, TypeOK, OverlapKept, NoScript

-----------------------------------------------------------------------------
\* What the statements of the files do, in terms of the fields of their file

LEMMA CheckCandidateDoes ==
  ASSUME TypeOK, NEW s \in Session, NEW v \in Version, CheckCandidate(s, v)
  PROVE  /\ script'[s].kind = "register" /\ script'[s].step = "dataset" /\ script'[s].to = v
         /\ script[s].kind = "none"
         /\ Versions("ACTIVE") = {active} /\ Versions("DEPLOYED") \subseteq {v}
         /\ candidate \in {v, NoVersion} /\ status[v] \notin {"ACTIVE", "RETIRED"}
         /\ UNCHANGED <<active, candidate, served, status, view, interrupted>>
BY Opened DEF CheckCandidate, pointers

LEMMA MergeDatasetDoes ==
  ASSUME TypeOK, NEW s \in Session, MergeDataset(s)
  PROVE  /\ script[s].kind = "register" /\ script[s].step = "dataset"
         /\ script'[s].kind = "register" /\ script'[s].step = "version"
         /\ script[s].to \in Version /\ script'[s].to = script[s].to
         /\ candidate' = script[s].to
         /\ UNCHANGED <<active, served, status, view, interrupted>>
BY Moved, RegisterScript DEF MergeDataset, At

LEMMA MergeVersionDoes ==
  ASSUME TypeOK, NEW s \in Session, MergeVersion(s)
  PROVE  /\ script[s].kind = "register" /\ script[s].step = "version"
         /\ script'[s].kind = "none" /\ script[s].to \in Version
         /\ status[script[s].to] # "ACTIVE" => status'[script[s].to] = "DEPLOYED"
         /\ status[script[s].to] = "ACTIVE" => status'[script[s].to] = "ACTIVE"
         /\ \A v \in Version \ {script[s].to} : status'[v] = status[v]
         /\ UNCHANGED <<active, candidate, served, view, interrupted>>
<1>1. script[s].kind = "register" /\ script[s].step = "version" /\ script[s].to \in Version
  BY RegisterScript DEF MergeVersion, At
<1>2. script'[s].kind = "none"
  BY Closed DEF MergeVersion
<1> QED
  BY <1>1, <1>2 DEF MergeVersion, TypeOK, pointers

LEMMA ReadReadinessDoes ==
  ASSUME TypeOK, NEW s \in Session, ReadReadiness(s)
  PROVE  /\ script[s].kind = "activate" /\ script[s].step = "preflight"
         /\ script'[s].kind = "activate" /\ script'[s].step = "edge"
         /\ script'[s].from = script[s].from /\ script'[s].to = script[s].to
         /\ script'[s].shown = script[s].shown
         /\ InvariantPass /\ candidate # NoVersion
         /\ UNCHANGED <<active, candidate, served, status, view, interrupted>>
<1>1. InvariantPass /\ candidate # NoVersion
  BY DEF ReadReadiness, Readiness
<1> QED
  BY <1>1, Moved DEF ReadReadiness, At, pointers

LEMMA CheckEdgeDoes ==
  ASSUME TypeOK, NEW s \in Session, CheckEdge(s)
  PROVE  /\ script[s].kind = "activate" /\ script[s].step = "edge"
         /\ script'[s].kind = "activate" /\ script'[s].step = "publish"
         /\ script'[s].from = script[s].from /\ script'[s].to = script[s].to
         /\ script'[s].shown = script[s].shown
         /\ active = script[s].from /\ candidate \in {script[s].to, NoVersion}
         /\ UNCHANGED <<active, candidate, served, status, view, interrupted>>
<1>1. /\ script[s].kind = "activate" /\ script[s].step = "edge"
      /\ script[s].from \in Version /\ script[s].to \in Version
  BY ReleaseScript DEF CheckEdge, At, ReleaseKind
<1>2. active = script[s].from /\ candidate \in {script[s].to, NoVersion}
  BY <1>1, VersionAssumption DEF CheckEdge, SqlDiffers, TypeOK
<1> QED
  BY <1>1, <1>2, Moved DEF CheckEdge, pointers

LEMMA CheckRollbackDoes ==
  ASSUME TypeOK, NEW s \in Session, CheckRollback(s)
  PROVE  /\ script[s].kind = "rollback" /\ script[s].step = "preflight"
         /\ script'[s].kind = "rollback" /\ script'[s].step = "publish"
         /\ script'[s].from = script[s].from /\ script'[s].to = script[s].to
         /\ script'[s].shown = script[s].shown
         /\ active = script[s].from /\ candidate = NoVersion
         /\ status[script[s].to] = "RETIRED" /\ Versions("ACTIVE") # {}
         /\ UNCHANGED <<active, candidate, served, status, view, interrupted>>
<1>1. Versions("ACTIVE") # {}
  BY FS_EmptySet DEF CheckRollback
<1> QED
  BY <1>1, Moved DEF CheckRollback, At, pointers

LEMMA PublishViewDoes ==
  ASSUME TypeOK, NEW s \in Session, PublishView(s)
  PROVE  /\ script[s].kind \in ReleaseKind /\ script[s].step = "publish"
         /\ script'[s].kind = script[s].kind /\ script'[s].step \in {"publish", "statuses"}
         /\ script'[s].from = script[s].from /\ script'[s].to = script[s].to
         /\ script'[s].shown = script[s].shown + 1 /\ script'[s].shown \in 1..ViewCount
         /\ view' = [view EXCEPT ![script'[s].shown] = script[s].to]
         /\ UNCHANGED <<active, candidate, served, status, interrupted>>
BY Switched DEF PublishView, At, pointers

LEMMA SwitchStatusesDoes ==
  ASSUME TypeOK, NEW s \in Session, SwitchStatuses(s)
  PROVE  /\ script[s].kind \in ReleaseKind /\ script[s].step = "statuses"
         /\ script'[s].kind = script[s].kind /\ script'[s].step = "pointers"
         /\ script[s].from \in Version /\ script'[s].from = script[s].from
         /\ script[s].to \in Version /\ script'[s].to = script[s].to
         /\ script'[s].shown = script[s].shown
         /\ \A v \in Version : status'[v] = "absent" <=> status[v] = "absent"
         /\ status[script[s].to] # "absent" => status'[script[s].to] = "ACTIVE"
         /\ \A v \in Version \ {script[s].to} :
              \/ status'[v] = status[v]
              \/ v = script[s].from /\ status[v] # "absent" /\ status'[v] = "RETIRED"
         /\ UNCHANGED <<active, candidate, served, view, interrupted>>
<1>1. /\ script[s].kind \in ReleaseKind /\ script[s].step = "statuses"
      /\ script[s].from \in Version /\ script[s].to \in Version
  BY ReleaseScript DEF SwitchStatuses, At
<1>2. ASSUME NEW v \in Version
      PROVE  status'[v] = IF status[v] = "absent" THEN "absent"
                          ELSE IF v = script[s].to THEN "ACTIVE"
                          ELSE IF v = script[s].from THEN "RETIRED" ELSE status[v]
  BY DEF SwitchStatuses
<1>3. /\ script'[s].kind = script[s].kind /\ script'[s].step = "pointers"
      /\ script'[s].from = script[s].from /\ script'[s].to = script[s].to
      /\ script'[s].shown = script[s].shown
      /\ UNCHANGED <<active, candidate, served, view, interrupted>>
  BY Moved DEF SwitchStatuses, pointers
<1> QED
  BY <1>1, <1>2, <1>3

LEMMA MovePointersDoes ==
  ASSUME TypeOK, NEW s \in Session, MovePointers(s)
  PROVE  /\ script[s].kind \in ReleaseKind /\ script[s].step = "pointers"
         /\ script'[s].kind = script[s].kind /\ script'[s].step = "retire"
         /\ script[s].from \in Version /\ script'[s].from = script[s].from
         /\ script[s].to \in Version /\ script'[s].to = script[s].to
         /\ script'[s].shown = script[s].shown
         /\ Expected(s) => /\ active' = script[s].to /\ candidate' = NoVersion
                           /\ served' = served \cup {script[s].to}
         /\ ~Expected(s) => UNCHANGED <<active, candidate, served>>
         /\ UNCHANGED <<status, view, interrupted>>
<1>1. /\ script[s].kind \in ReleaseKind /\ script[s].step = "pointers"
      /\ script[s].from \in Version /\ script[s].to \in Version
  BY ReleaseScript DEF MovePointers, At
<1> QED
  BY <1>1, Moved DEF MovePointers, pointers

LEMMA WithdrawDatasetDoes ==
  ASSUME TypeOK, NEW s \in Session, WithdrawDataset(s)
  PROVE  /\ script[s].kind = "decommission" /\ script[s].step = "dataset"
         /\ script'[s].kind = "decommission" /\ script'[s].step = "version"
         /\ candidate' = NoVersion
         /\ UNCHANGED <<active, served, status, view, interrupted>>
BY Moved DEF WithdrawDataset, At

LEMMA RetireVersionsDoes ==
  ASSUME TypeOK, NEW s \in Session, RetireVersions(s)
  PROVE  /\ script[s].kind = "decommission" /\ script[s].step = "version"
         /\ script'[s].kind = "none"
         /\ \A v \in Version :
              status'[v] = IF status[v] = "absent" THEN "absent" ELSE "RETIRED"
         /\ UNCHANGED <<active, candidate, served, view, interrupted>>
BY Closed DEF RetireVersions, At, pointers

-----------------------------------------------------------------------------
\* Rows that serve or have served, if registration is kept apart from activation
\* and decommission

\* The versions whose row is ACTIVE or RETIRED.
Used == Versions("ACTIVE") \cup Versions("RETIRED")

\* A version in registration is not among them, those of a rollback that has
\* passed its check are, and a candidate that was ready keeps its row until the
\* activation that counts on it has switched the statuses.
RegisterRows(s) == script[s].kind = "register" => script[s].to \notin Used
RollbackRows(s) ==
  Doing(s, {"rollback"}, {"publish", "statuses", "pointers"}) =>
    script[s].from \in Used /\ script[s].to \in Used
ActivateRows(s) ==
  /\ Doing(s, {"activate"}, {"edge", "publish", "statuses", "pointers"}) =>
       candidate = NoVersion \/ status[candidate] # "absent"
  /\ At(s, {"activate"}, "pointers") /\ candidate = script[s].to => candidate \in Used
RowsInv ==
  /\ active \in Used
  /\ \A s \in Session : RegisterRows(s) /\ RollbackRows(s) /\ ActivateRows(s)

\* What holds of the candidate's row does not depend on the file that relies on it.
LEMMA ReadyRows ==
  ASSUME TypeOK, InvariantPass, candidate # NoVersion
  PROVE  candidate \in Version /\ status[candidate] = "DEPLOYED"
BY DEF TypeOK, InvariantPass, Versions

\* The files of the other sessions, in a step that changes no row.
LEMMA RowsOfOne ==
  ASSUME RowsInv, NEW s \in Session, Others(s),
         UNCHANGED <<active, candidate, status>>,
         RegisterRows(s)', RollbackRows(s)', ActivateRows(s)'
  PROVE  RowsInv'
<1>1. Used' = Used
  BY DEF Used, Versions
<1>2. ASSUME NEW t \in Session \ {s}
      PROVE  RegisterRows(t)' /\ RollbackRows(t)' /\ ActivateRows(t)'
  BY <1>1, <1>2
     DEF RowsInv, Others, RegisterRows, RollbackRows, ActivateRows, Doing, At
<1> QED
  BY <1>1, <1>2 DEF RowsInv

\* RowsInv is inductive.
LEMMA RowsStep ==
  ASSUME TypeOK, OverlapKept, RowsInv, [Next]_vars,
         Apart("activate", "register"), Apart("register", "decommission")
  PROVE  RowsInv'
<1> USE DEF Doing, At, ReleaseKind
<1>1. CASE UNCHANGED vars
  BY <1>1 DEF RowsInv, Used, Versions, RegisterRows, RollbackRows, ActivateRows, vars
<1>2. CASE Next
  <2>1. PICK s \in Session : Others(s) /\ Does(s)
    BY <1>2, StepForms
  <2>2. /\ active \in Used
        /\ \A t \in Session : RegisterRows(t) /\ RollbackRows(t) /\ ActivateRows(t)
    BY DEF RowsInv
  <2>3. CASE Resting(s)
    <3>1. RegisterRows(s)' /\ RollbackRows(s)' /\ ActivateRows(s)'
      BY <2>3 DEF Resting, Begins, Finishes, RegisterRows, RollbackRows, ActivateRows
    <3> QED
      BY <2>1, <2>3, <3>1, RowsOfOne DEF Resting
  <2>4. ASSUME NEW v \in Version, CheckCandidate(s, v)
        PROVE  RowsInv'
    <3>1. RegisterRows(s)' /\ RollbackRows(s)' /\ ActivateRows(s)'
      BY <2>4, CheckCandidateDoes DEF Used, Versions, RegisterRows, RollbackRows, ActivateRows
    <3> QED
      BY <2>1, <2>4, <3>1, RowsOfOne, CheckCandidateDoes
  <2>5. CASE MergeDataset(s)
    <3>1. Used' = Used
      BY <2>5, MergeDatasetDoes DEF Used, Versions
    <3>2. ASSUME NEW t \in Session
          PROVE  RegisterRows(t)' /\ RollbackRows(t)' /\ ActivateRows(t)'
      <4>1. CASE t = s
        BY <2>2, <2>5, <3>1, <4>1, MergeDatasetDoes DEF RegisterRows, RollbackRows, ActivateRows
      <4>2. CASE t # s
        <5>1. script[t].kind # "activate"
          BY <2>5, <4>2, MergeDatasetDoes, KeptApart
        <5>2. script'[t] = script[t]
          BY <2>1, <4>2 DEF Others
        <5> QED
          BY <2>2, <3>1, <5>1, <5>2 DEF RegisterRows, RollbackRows, ActivateRows
      <4> QED
        BY <4>1, <4>2
    <3> QED
      BY <2>2, <2>5, <3>1, <3>2, MergeDatasetDoes DEF RowsInv
  <2>6. CASE MergeVersion(s)
    <3>1. script[s].to \notin Used /\ script[s].to \in Version
      BY <2>2, <2>6, MergeVersionDoes DEF RegisterRows
    <3>2. Used' = Used
      BY <2>6, <3>1, MergeVersionDoes DEF Used, Versions
    <3>3. ASSUME NEW t \in Session
          PROVE  RegisterRows(t)' /\ RollbackRows(t)' /\ ActivateRows(t)'
      <4>1. CASE t = s
        BY <2>6, <4>1, MergeVersionDoes DEF RegisterRows, RollbackRows, ActivateRows
      <4>2. CASE t # s
        <5>1. script[t].kind # "activate"
          BY <2>6, <4>2, MergeVersionDoes, KeptApart
        <5>2. script'[t] = script[t]
          BY <2>1, <4>2 DEF Others
        <5> QED
          BY <2>2, <3>2, <5>1, <5>2 DEF RegisterRows, RollbackRows, ActivateRows
      <4> QED
        BY <4>1, <4>2
    <3> QED
      BY <2>2, <2>6, <3>2, <3>3, MergeVersionDoes DEF RowsInv
  <2>7. CASE ReadReadiness(s)
    <3>1. RegisterRows(s)' /\ RollbackRows(s)' /\ ActivateRows(s)'
      BY <2>7, ReadReadinessDoes, ReadyRows DEF RegisterRows, RollbackRows, ActivateRows
    <3> QED
      BY <2>1, <2>7, <3>1, RowsOfOne, ReadReadinessDoes
  <2>8. CASE CheckEdge(s)
    <3>1. RegisterRows(s)' /\ RollbackRows(s)' /\ ActivateRows(s)'
      BY <2>2, <2>8, CheckEdgeDoes DEF RegisterRows, RollbackRows, ActivateRows
    <3> QED
      BY <2>1, <2>8, <3>1, RowsOfOne, CheckEdgeDoes
  <2>9. CASE CheckRollback(s)
    <3>1. script[s].from \in Used /\ script[s].to \in Used
      <4>1. script[s].to \in Version
        BY <2>9, CheckRollbackDoes, ReleaseScript
      <4> QED
        BY <2>2, <2>9, <4>1, CheckRollbackDoes DEF Used, Versions
    <3>2. Used' = Used
      BY <2>9, CheckRollbackDoes DEF Used, Versions
    <3>3. RegisterRows(s)' /\ RollbackRows(s)' /\ ActivateRows(s)'
      BY <2>9, <3>1, <3>2, CheckRollbackDoes DEF RegisterRows, RollbackRows, ActivateRows
    <3> QED
      BY <2>1, <2>9, <3>3, RowsOfOne, CheckRollbackDoes
  <2>10. CASE PublishView(s)
    <3>1. Used' = Used
      BY <2>10, PublishViewDoes DEF Used, Versions
    <3>2. RegisterRows(s)' /\ RollbackRows(s)' /\ ActivateRows(s)'
      BY <2>2, <2>10, <3>1, PublishViewDoes DEF RegisterRows, RollbackRows, ActivateRows
    <3> QED
      BY <2>1, <2>10, <3>2, RowsOfOne, PublishViewDoes
  <2>11. CASE SwitchStatuses(s)
    <3>1. Used \subseteq Used'
      BY <2>11, SwitchStatusesDoes DEF Used, Versions
    <3>2. script[s].to \in Used' \/ status[script[s].to] = "absent"
      BY <2>11, SwitchStatusesDoes DEF Used, Versions
    <3>3. ASSUME NEW t \in Session
          PROVE  RegisterRows(t)' /\ RollbackRows(t)' /\ ActivateRows(t)'
      <4>1. CASE t = s
        <5>1. RegisterRows(t)' /\ RollbackRows(t)'
          BY <2>2, <2>11, <3>1, <4>1, SwitchStatusesDoes DEF RegisterRows, RollbackRows
        <5>2. script[s].kind = "activate" =>
                candidate' = candidate /\ (candidate = NoVersion \/ status[candidate] # "absent")
          BY <2>2, <2>11, SwitchStatusesDoes DEF ActivateRows
        <5>3. candidate = NoVersion
                \/ (status'[candidate] = "absent" <=> status[candidate] = "absent")
          BY <2>11, SwitchStatusesDoes DEF TypeOK
        <5>4. script[s].to \in Version /\ script'[s].to = script[s].to
              /\ script'[s].kind = script[s].kind
          BY <2>11, SwitchStatusesDoes
        <5>5. ActivateRows(s)'
          BY <3>2, <5>2, <5>3, <5>4, VersionAssumption DEF ActivateRows
        <5>6. ActivateRows(t)'
          BY <4>1, <5>5
        <5> QED
          BY <5>1, <5>6
      <4>2. CASE t # s
        <5>1. script'[t] = script[t]
          BY <2>1, <4>2 DEF Others
        <5>2. RollbackRows(t)'
          BY <2>2, <3>1, <5>1 DEF RollbackRows
        <5>3. ActivateRows(t)'
          BY <2>2, <2>11, <3>1, <5>1, SwitchStatusesDoes DEF ActivateRows, TypeOK
        <5>4. RegisterRows(t)'
          <6> SUFFICES ASSUME script[t].kind = "register" PROVE script[t].to \notin Used'
            BY <5>1 DEF RegisterRows
          <6>1. script[s].kind = "rollback"
            BY <2>11, <4>2, SwitchStatusesDoes, KeptApart
          <6>2. script[t].to \notin Used /\ script[s].from \in Used /\ script[s].to \in Used
            BY <2>2, <2>11, <6>1, SwitchStatusesDoes DEF RegisterRows, RollbackRows
          <6>3. script[t].to \in Version
            BY RegisterScript
          <6> QED
            BY <2>11, <6>2, <6>3, SwitchStatusesDoes DEF Used, Versions
        <5> QED
          BY <5>2, <5>3, <5>4
      <4> QED
        BY <4>1, <4>2
    <3> QED
      BY <2>2, <2>11, <3>1, <3>3, SwitchStatusesDoes DEF RowsInv
  <2>12. CASE MovePointers(s)
    <3>1. Used' = Used
      BY <2>12, MovePointersDoes DEF Used, Versions
    <3>2. Expected(s) => script[s].to \in Used
      <4>1. CASE script[s].kind = "activate"
        BY <2>2, <2>12, <4>1, MovePointersDoes DEF ActivateRows, Expected
      <4>2. CASE script[s].kind = "rollback"
        BY <2>2, <2>12, <4>2, MovePointersDoes DEF RollbackRows
      <4> QED
        BY <2>12, <4>1, <4>2, MovePointersDoes
    <3>3. active' \in Used' /\ candidate' \in {candidate, NoVersion}
      BY <2>2, <2>12, <3>1, <3>2, MovePointersDoes
    <3>4. ASSUME NEW t \in Session
          PROVE  RegisterRows(t)' /\ RollbackRows(t)' /\ ActivateRows(t)'
      <4>1. CASE t = s
        BY <2>12, <4>1, MovePointersDoes DEF RegisterRows, RollbackRows, ActivateRows
      <4>2. CASE t # s
        <5>1. script'[t] = script[t]
          BY <2>1, <4>2 DEF Others
        <5>2. RegisterRows(t)' /\ RollbackRows(t)'
          BY <2>2, <3>1, <5>1 DEF RegisterRows, RollbackRows
        <5>3. ActivateRows(t)'
          <6>1. script[t].kind = "activate" => script[t].to # NoVersion
            BY ReleaseScript, VersionAssumption
          <6> QED
            BY <2>2, <2>12, <3>1, <3>3, <5>1, <6>1, MovePointersDoes DEF ActivateRows
        <5> QED
          BY <5>2, <5>3
      <4> QED
        BY <4>1, <4>2
    <3> QED
      BY <3>3, <3>4 DEF RowsInv
  <2>13. CASE WithdrawDataset(s)
    <3>1. Used' = Used
      BY <2>13, WithdrawDatasetDoes DEF Used, Versions
    <3>2. ASSUME NEW t \in Session
          PROVE  RegisterRows(t)' /\ RollbackRows(t)' /\ ActivateRows(t)'
      <4>1. CASE t = s
        BY <2>13, <4>1, WithdrawDatasetDoes DEF RegisterRows, RollbackRows, ActivateRows
      <4>2. CASE t # s
        <5>1. script'[t] = script[t]
          BY <2>1, <4>2 DEF Others
        <5>2. RegisterRows(t)' /\ RollbackRows(t)'
          BY <2>2, <3>1, <5>1 DEF RegisterRows, RollbackRows
        <5>3. ActivateRows(t)'
          <6>1. script[t].kind = "activate" => script[t].to # NoVersion
            BY ReleaseScript, VersionAssumption
          <6> QED
            BY <2>13, <5>1, <6>1, WithdrawDatasetDoes DEF ActivateRows
        <5> QED
          BY <5>2, <5>3
      <4> QED
        BY <4>1, <4>2
    <3> QED
      BY <2>2, <2>13, <3>1, <3>2, WithdrawDatasetDoes DEF RowsInv
  <2>14. CASE RetireVersions(s)
    <3>1. Used \subseteq Used'
      BY <2>14, RetireVersionsDoes DEF Used, Versions
    <3>2. ASSUME NEW t \in Session
          PROVE  RegisterRows(t)' /\ RollbackRows(t)' /\ ActivateRows(t)'
      <4>1. CASE t = s
        BY <2>14, <4>1, RetireVersionsDoes DEF RegisterRows, RollbackRows, ActivateRows
      <4>2. CASE t # s
        <5>1. script'[t] = script[t]
          BY <2>1, <4>2 DEF Others
        <5>2. script[t].kind # "register"
          BY <2>14, <4>2, RetireVersionsDoes, KeptApart
        <5> QED
          BY <2>2, <2>14, <3>1, <5>1, <5>2, RetireVersionsDoes
             DEF RegisterRows, RollbackRows, ActivateRows, TypeOK
      <4> QED
        BY <4>1, <4>2
    <3> QED
      BY <2>2, <2>14, <3>1, <3>2, RetireVersionsDoes DEF RowsInv
  <2> QED
    BY <2>1, <2>3, <2>4, <2>5, <2>6, <2>7, <2>8, <2>9, <2>10, <2>11, <2>12, <2>13, <2>14
       DEF Does
<1> QED
  BY <1>1, <1>2

\* RowsInv holds initially.
LEMMA RowsInit ==
  ASSUME Init
  PROVE  RowsInv
<1>1. active \in Used
  BY VersionAssumption DEF Init, Used, Versions
<1> QED
  BY <1>1, OverlapInit
     DEF RowsInv, RegisterRows, RollbackRows, ActivateRows, Doing, At

-----------------------------------------------------------------------------
\* A retired version stays out, if activation is also kept apart from activation
\* and decommission

\* The candidate an activation has found ready stays the candidate, and deployed,
\* until the statuses are switched.
Held(s) ==
  /\ At(s, {"activate"}, "edge") => candidate # NoVersion /\ status[candidate] = "DEPLOYED"
  /\ Doing(s, {"activate"}, {"publish", "statuses"}) =>
       candidate = script[s].to /\ status[candidate] = "DEPLOYED"

\* A step that keeps the candidate and its row keeps it for all activations.
LEMMA HeldOfOne ==
  ASSUME \A t \in Session : Held(t), NEW s \in Session, Others(s),
         UNCHANGED <<candidate, status>>, Held(s)'
  PROVE  \A t \in Session : Held(t)'
<1>1. ASSUME NEW t \in Session \ {s}
      PROVE  Held(t)'
  BY <1>1 DEF Others, Held, Doing, At
<1> QED
  BY <1>1

\* A step of a file that is kept apart from activation disturbs no activation.
LEMMA HeldByNone ==
  ASSUME OverlapKept, NEW s \in Session, Others(s), NEW a,
         a # "none", script[s].kind = a, Apart("activate", a), Held(s)'
  PROVE  \A t \in Session : Held(t)'
<1>1. ASSUME NEW t \in Session \ {s}
      PROVE  Held(t)'
  <2>1. script[t].kind # "activate"
    BY <1>1, KeptApart
  <2> QED
    BY <1>1, <2>1 DEF Others, Held, Doing, At
<1> QED
  BY <1>1

\* What an activation holds on to is kept by every step.
LEMMA HeldStep ==
  ASSUME TypeOK, OverlapKept, RowsInv, \A s \in Session : Held(s), [Next]_vars,
         Apart("activate", "register"), Apart("activate", "activate"),
         Apart("activate", "decommission")
  PROVE  \A s \in Session : Held(s)'
<1> USE DEF Doing, At, ReleaseKind
<1>1. CASE UNCHANGED vars
  BY <1>1 DEF Held, vars
<1>2. CASE Next
  <2>1. PICK s \in Session : Others(s) /\ Does(s)
    BY <1>2, StepForms
  <2>2. CASE Resting(s)
    BY <2>1, <2>2, HeldOfOne DEF Resting, Begins, Finishes, Held
  <2>3. ASSUME NEW v \in Version, CheckCandidate(s, v)
        PROVE  \A t \in Session : Held(t)'
    BY <2>1, <2>3, CheckCandidateDoes, HeldOfOne DEF Held
  <2>4. CASE MergeDataset(s)
    BY <2>1, <2>4, MergeDatasetDoes, HeldByNone DEF Held
  <2>5. CASE MergeVersion(s)
    BY <2>1, <2>5, MergeVersionDoes, HeldByNone DEF Held
  <2>6. CASE ReadReadiness(s)
    <3>1. Held(s)'
      BY <2>6, ReadReadinessDoes, ReadyRows DEF Held
    <3> QED
      BY <2>1, <2>6, <3>1, ReadReadinessDoes, HeldOfOne
  <2>7. CASE CheckEdge(s)
    <3>1. Held(s)'
      BY <2>7, CheckEdgeDoes DEF Held
    <3> QED
      BY <2>1, <2>7, <3>1, CheckEdgeDoes, HeldOfOne
  <2>8. CASE CheckRollback(s)
    BY <2>1, <2>8, CheckRollbackDoes, HeldOfOne DEF Held
  <2>9. CASE PublishView(s)
    BY <2>1, <2>9, PublishViewDoes, HeldOfOne DEF Held
  <2>10. CASE SwitchStatuses(s)
    <3>1. Held(s)'
      BY <2>10, SwitchStatusesDoes DEF Held
    <3>2. CASE script[s].kind = "activate"
      BY <2>1, <2>10, <3>1, <3>2, HeldByNone
    <3>3. CASE script[s].kind = "rollback"
      <4>1. script[s].from \in Used /\ script[s].to \in Used
        BY <2>10, <3>3, SwitchStatusesDoes DEF RowsInv, RollbackRows
      <4>2. candidate \in Version /\ status[candidate] = "DEPLOYED" =>
              status'[candidate] = "DEPLOYED"
        BY <2>10, <4>1, SwitchStatusesDoes DEF Used, Versions
      <4>3. ASSUME NEW t \in Session \ {s}
            PROVE  Held(t)'
        <5>1. script[t].kind = "activate" => script[t].to # NoVersion
          BY ReleaseScript, VersionAssumption
        <5> QED
          BY <2>1, <2>10, <4>2, <4>3, <5>1, SwitchStatusesDoes DEF Held, Others, TypeOK
      <4> QED
        BY <3>1, <4>3
    <3> QED
      BY <2>10, <3>2, <3>3, SwitchStatusesDoes
  <2>11. CASE MovePointers(s)
    <3>1. Held(s)'
      BY <2>11, MovePointersDoes DEF Held
    <3>2. CASE script[s].kind = "activate"
      BY <2>1, <2>11, <3>1, <3>2, HeldByNone
    <3>3. CASE script[s].kind = "rollback"
      <4>1. candidate' = candidate /\ status' = status
        BY <2>11, <3>3, MovePointersDoes DEF Expected
      <4> QED
        BY <2>1, <3>1, <4>1, HeldOfOne
    <3> QED
      BY <2>11, <3>2, <3>3, MovePointersDoes
  <2>12. CASE WithdrawDataset(s)
    BY <2>1, <2>12, WithdrawDatasetDoes, HeldByNone DEF Held
  <2>13. CASE RetireVersions(s)
    BY <2>1, <2>13, RetireVersionsDoes, HeldByNone DEF Held
  <2> QED
    BY <2>1, <2>2, <2>3, <2>4, <2>5, <2>6, <2>7, <2>8, <2>9, <2>10, <2>11, <2>12, <2>13
       DEF Does
<1> QED
  BY <1>1, <1>2

\* For any versions, views and number of sessions, wherever files stop: a retired
\* version comes back through a rollback only, if registration overlaps neither
\* activation nor decommission, and activation neither of the two nor another
\* activation.  Rollbacks may overlap anything.
THEOREM RetiredStays ==
  ASSUME Apart("activate", "register"), Apart("register", "decommission"),
         Apart("activate", "activate"), Apart("activate", "decommission")
  PROVE  Spec => RetiredStaysOut
<1> DEFINE Inv == TypeOK /\ OverlapKept /\ RowsInv /\ \A s \in Session : Held(s)
           Stays == \A v \in Version : status[v] = "RETIRED" /\ status'[v] # "RETIRED" =>
                      \E s \in Session : At(s, {"rollback"}, "statuses") /\ script[s].to = v
<1>1. Init => Inv
  BY OverlapInit, RowsInit DEF Held, Doing, At
<1>2. Inv /\ [Next]_vars => Inv'
  BY TypeStep, OverlapStep, RowsStep, HeldStep
<1>3. ASSUME Inv, [Next]_vars
      PROVE  [Stays]_vars
  <2> SUFFICES ASSUME Next, NEW v \in Version, status[v] = "RETIRED", status'[v] # "RETIRED"
               PROVE  \E s \in Session : At(s, {"rollback"}, "statuses") /\ script[s].to = v
    BY <1>3
  <2>1. PICK s \in Session : Does(s)
    BY <1>3, StepForms
  <2>2. MergeVersion(s) \/ SwitchStatuses(s)
    BY <1>3, <2>1, CheckCandidateDoes, MergeDatasetDoes, ReadReadinessDoes, CheckEdgeDoes,
       CheckRollbackDoes, PublishViewDoes, MovePointersDoes, WithdrawDatasetDoes,
       RetireVersionsDoes DEF Does, Resting
  <2>3. ~MergeVersion(s)
    <3> SUFFICES ASSUME MergeVersion(s) PROVE FALSE
      OBVIOUS
    <3>1. script[s].to = v
      BY <1>3, MergeVersionDoes
    <3>2. v \notin Used
      BY <1>3, <3>1, MergeVersionDoes DEF RowsInv, RegisterRows
    <3> QED
      BY <3>2 DEF Used, Versions
  <2>4. script[s].kind \in ReleaseKind /\ script[s].step = "statuses" /\ script[s].to = v
    BY <1>3, <2>2, <2>3, SwitchStatusesDoes
  <2>5. script[s].kind # "activate"
    BY <1>3, <2>4 DEF Held, Doing
  <2> QED
    BY <2>4, <2>5 DEF At, ReleaseKind
<1> QED
  BY <1>1, <1>2, <1>3, PTL DEF Spec, RetiredStaysOut

-----------------------------------------------------------------------------
\* The old path stays available, if releases overlap neither each other nor what
\* may move the candidate they count on

\* What a release has found, and done, when it comes to each of its steps.
PathOf(s) ==
  script[s].kind \in ReleaseKind =>
    /\ script[s].from # script[s].to
    /\ \A i \in 1..script[s].shown : view[i] = script[s].to
    /\ At(s, {"activate"}, "edge") => candidate # NoVersion
    /\ script[s].step \in {"publish", "statuses", "pointers"} => Expected(s)
    /\ script[s].step = "retire" => active = script[s].to

\* A step that changes neither pointers nor views keeps it for all releases.
LEMMA PathOfOne ==
  ASSUME \A t \in Session : PathOf(t), NEW s \in Session, Others(s),
         UNCHANGED <<active, candidate, view>>, PathOf(s)'
  PROVE  \A t \in Session : PathOf(t)'
<1>1. ASSUME NEW t \in Session \ {s}
      PROVE  PathOf(t)'
  BY <1>1 DEF Others, PathOf, Expected, At
<1> QED
  BY <1>1

\* A step of a release disturbs no other release.
LEMMA PathByRelease ==
  ASSUME OverlapKept, NEW s \in Session, Others(s), script[s].kind \in ReleaseKind,
         Apart("activate", "activate"), Apart("activate", "rollback"),
         Apart("rollback", "rollback"), PathOf(s)'
  PROVE  \A t \in Session : PathOf(t)'
<1>0. Apart("rollback", "activate")
  BY DEF Apart
<1>1. ASSUME NEW t \in Session \ {s}
      PROVE  PathOf(t)'
  <2>1. script[t].kind \notin ReleaseKind
    BY <1>0, <1>1, KeptApart DEF ReleaseKind
  <2> QED
    BY <1>1, <2>1 DEF Others, PathOf, At
<1> QED
  BY <1>1

\* PathOf is inductive, with the invariant of the candidate.
LEMMA PathStep ==
  ASSUME CandidateInv, OverlapKept, \A s \in Session : PathOf(s), [Next]_vars,
         Apart("activate", "activate"), Apart("activate", "rollback"),
         Apart("rollback", "rollback"), Apart("rollback", "register"),
         Apart("activate", "decommission")
  PROVE  \A s \in Session : PathOf(s)'
<1> USE DEF ReleaseKind, At
<1>0. TypeOK /\ TypeOK'
  BY TypeStep DEF CandidateInv
<1>1. CASE UNCHANGED vars
  BY <1>1 DEF PathOf, Expected, vars
<1>2. CASE Next
  <2>1. PICK s \in Session : Others(s) /\ Does(s)
    BY <1>0, <1>2, StepForms
  <2>2. CASE Resting(s)
    <3>1. PathOf(s)'
      <4>1. CASE Begins(s)
        BY <4>1 DEF Begins, PathOf
      <4>2. CASE Finishes(s)
        BY <2>2, <4>2 DEF Finishes, Resting, PathOf
      <4> QED
        BY <2>2, <4>1, <4>2 DEF Resting
    <3> QED
      BY <2>1, <2>2, <3>1, PathOfOne DEF Resting
  <2>3. ASSUME NEW v \in Version, CheckCandidate(s, v)
        PROVE  \A t \in Session : PathOf(t)'
    BY <1>0, <2>1, <2>3, CheckCandidateDoes, PathOfOne DEF PathOf
  <2>4. CASE MergeDataset(s)
    <3>1. candidate \in {script[s].to, NoVersion} /\ candidate' = script[s].to
          /\ script[s].to \in Version /\ script[s].kind = "register"
          /\ script'[s].kind = "register" /\ UNCHANGED <<active, view>>
      BY <1>0, <2>4, MergeDatasetDoes DEF CandidateInv, PointerFree, At
    <3>2. ASSUME NEW t \in Session \ {s}
          PROVE  PathOf(t)'
      <4>1. script'[t] = script[t]
        BY <2>1, <3>2 DEF Others
      <4>2. script[t].kind # "rollback"
        BY <3>1, <3>2, KeptApart
      <4>3. script[t].kind = "activate" => script[t].to # NoVersion
        BY <1>0, ReleaseScript, VersionAssumption
      <4> QED
        BY <3>1, <4>1, <4>2, <4>3, VersionAssumption DEF PathOf, Expected
    <3>3. PathOf(s)'
      BY <3>1 DEF PathOf
    <3> QED
      BY <3>2, <3>3
  <2>5. CASE MergeVersion(s)
    BY <1>0, <2>1, <2>5, MergeVersionDoes, PathOfOne DEF PathOf
  <2>6. CASE ReadReadiness(s)
    BY <1>0, <2>1, <2>6, ReadReadinessDoes, PathOfOne DEF PathOf
  <2>7. CASE CheckEdge(s)
    <3>1. Expected(s)' /\ PathOf(s)
      BY <1>0, <2>7, CheckEdgeDoes DEF Expected, PathOf
    <3>2. PathOf(s)'
      BY <1>0, <2>7, <3>1, CheckEdgeDoes DEF PathOf
    <3> QED
      BY <1>0, <2>1, <2>7, <3>2, CheckEdgeDoes, PathOfOne
  <2>8. CASE CheckRollback(s)
    <3>1. Expected(s)'
      BY <1>0, <2>8, CheckRollbackDoes DEF Expected
    <3>2. PathOf(s)'
      BY <1>0, <2>8, <3>1, CheckRollbackDoes DEF PathOf
    <3> QED
      BY <1>0, <2>1, <2>8, <3>2, CheckRollbackDoes, PathOfOne
  <2>9. CASE PublishView(s)
    <3> DEFINE i == script'[s].shown
    <3>1. /\ script[s].kind \in ReleaseKind /\ script[s].step = "publish"
          /\ script'[s].kind = script[s].kind /\ script'[s].step \in {"publish", "statuses"}
          /\ script'[s].from = script[s].from /\ script'[s].to = script[s].to
          /\ i = script[s].shown + 1 /\ i \in 1..ViewCount
          /\ view' = [view EXCEPT ![i] = script[s].to]
          /\ UNCHANGED <<active, candidate>>
      BY <1>0, <2>9, PublishViewDoes
    <3>2. Expected(s)' /\ PathOf(s)
      BY <3>1 DEF PathOf, Expected
    <3>3. \A j \in 1..i : view'[j] = script[s].to
      <4> SUFFICES ASSUME NEW j \in 1..i PROVE view'[j] = script[s].to
        OBVIOUS
      <4>1. script[s].shown \in Int
        BY <1>0, <3>1, ReleaseScript, ViewAssumption DEF OpenRelease
      <4>2. CASE j = i
        BY <1>0, <3>1, <4>2 DEF TypeOK
      <4>3. CASE j # i
        <5>1. j \in 1..script[s].shown
          BY <3>1, <4>1, <4>3
        <5>2. j \in 1..ViewCount
          BY <3>1, ViewAssumption
        <5> QED
          BY <1>0, <3>1, <3>2, <4>3, <5>1, <5>2 DEF PathOf, TypeOK
      <4> QED
        BY <4>2, <4>3
    <3>4. PathOf(s)'
      BY <3>1, <3>2, <3>3 DEF PathOf
    <3> QED
      BY <2>1, <3>1, <3>4, PathByRelease
  <2>10. CASE SwitchStatuses(s)
    <3>1. PathOf(s)'
      BY <1>0, <2>10, SwitchStatusesDoes DEF PathOf, Expected
    <3> QED
      BY <1>0, <2>1, <2>10, <3>1, SwitchStatusesDoes, PathByRelease
  <2>11. CASE MovePointers(s)
    <3>1. Expected(s)
      BY <1>0, <2>11, MovePointersDoes DEF PathOf
    <3>2. PathOf(s)'
      BY <1>0, <2>11, <3>1, MovePointersDoes DEF PathOf
    <3> QED
      BY <1>0, <2>1, <2>11, <3>2, MovePointersDoes, PathByRelease
  <2>12. CASE WithdrawDataset(s)
    <3>1. /\ script[s].kind = "decommission" /\ script'[s].kind = "decommission"
          /\ candidate' = NoVersion /\ UNCHANGED <<active, view>>
      BY <1>0, <2>12, WithdrawDatasetDoes
    <3>2. ASSUME NEW t \in Session \ {s}
          PROVE  PathOf(t)'
      <4>1. script'[t] = script[t]
        BY <2>1, <3>2 DEF Others
      <4>2. script[t].kind # "activate"
        BY <3>1, <3>2, KeptApart
      <4> QED
        BY <3>1, <4>1, <4>2 DEF PathOf, Expected
    <3>3. PathOf(s)'
      BY <3>1 DEF PathOf
    <3> QED
      BY <3>2, <3>3
  <2>13. CASE RetireVersions(s)
    BY <1>0, <2>1, <2>13, RetireVersionsDoes, PathOfOne DEF PathOf
  <2> QED
    BY <2>1, <2>2, <2>3, <2>4, <2>5, <2>6, <2>7, <2>8, <2>9, <2>10, <2>11, <2>12, <2>13
       DEF Does
<1> QED
  BY <1>1, <1>2

\* For any versions, views and number of sessions, wherever files stop: the
\* replaced version's runtime is retired only when neither the pointer nor a
\* published view serves it, if releases overlap neither each other, nor activation
\* decommission, nor rollback registration.
THEOREM OldPathKept ==
  ASSUME Apart("activate", "activate"), Apart("activate", "rollback"),
         Apart("rollback", "rollback"), Apart("rollback", "register"),
         Apart("activate", "decommission")
  PROVE  Spec => OldPathAvailable
<1> DEFINE Inv == CandidateInv /\ OverlapKept /\ \A s \in Session : PathOf(s)
           Kept == \A s \in Session :
                     At(s, ReleaseKind, "retire") /\ script'[s] # script[s] =>
                       \A v \in resumed \ resumed' : ~Served(v)
<1>1. Init => Inv
  <2> SUFFICES ASSUME Init PROVE Inv
    OBVIOUS
  <2>1. CandidateInv
    BY OverlapInit DEF CandidateInv, OneRegistration, PointerFree, At
  <2> QED
    BY <2>1, OverlapInit DEF PathOf, ReleaseKind
<1>2. Inv /\ [Next]_vars => Inv'
  BY CandidateStep, OverlapStep, PathStep DEF CandidateInv
<1>3. ASSUME Inv, [Next]_vars
      PROVE  [Kept]_vars
  <2> SUFFICES ASSUME Next, NEW s \in Session, At(s, ReleaseKind, "retire"),
                      script'[s] # script[s], NEW v \in resumed \ resumed'
               PROVE  ~Served(v)
    BY <1>3
  <2>0. TypeOK
    BY <1>3 DEF CandidateInv
  <2>1. PICK t \in Session : Register(t) \/ Release(t) \/ Lifecycle(t) \/ Stop(t)
    BY DEF Next
  <2>2. t = s
    BY <2>0, <2>1, SessionStep DEF Others
  <2>3. RetireRuntime(s)
    <3>1. script[s] # NoScript
      BY DEF At, NoScript, ReleaseKind
    <3> QED
      BY <2>1, <2>2, <3>1
         DEF Register, CheckCandidate, MergeDataset, MergeVersion, Release, StartRelease,
             ReadReadiness, CheckEdge, CheckRollback, PublishView, SwitchStatuses,
             MovePointers, CheckPostflight, RecordSuccess, Lifecycle, StartLifecycle,
             SetLifecycle, SuspendAll, WithdrawDataset, RetireVersions, Stop, Open
  <2>4. v = script[s].from
    BY <2>3 DEF RetireRuntime
  <2>5. /\ script[s].from # script[s].to /\ active = script[s].to
        /\ \A i \in 1..script[s].shown : view[i] = script[s].to
    BY <1>3 DEF PathOf, At
  <2>6. script[s].shown = ViewCount
    BY <2>0, ReleaseScript DEF ShownRelease, At
  <2> QED
    BY <2>4, <2>5, <2>6 DEF Served
<1> QED
  BY <1>1, <1>2, <1>3, PTL DEF Spec, OldPathAvailable

-----------------------------------------------------------------------------
\* The promise of ReleasePointers, if activation is kept apart from registration
\* and decommission, and rollback from decommission

\* What a file has found about the versions that serve or have served.
PromiseOf(s) ==
  /\ script[s].kind = "register" => script[s].to \notin served
  /\ script[s].kind \in ReleaseKind => script[s].from # script[s].to
  /\ Doing(s, ReleaseKind, {"publish", "statuses", "pointers"}) => script[s].from \in served
  /\ Doing(s, {"rollback"}, {"publish", "statuses", "pointers"}) => script[s].to \in served
  /\ ActivateRows(s)

\* What serves or has served keeps its row, and nothing else is RETIRED until the
\* dataset is decommissioned, when no release passes its preflight any more.
NoReleases ==
  /\ Versions("ACTIVE") = {}
  /\ \A s \in Session : script[s].kind \in ReleaseKind => script[s].step = "preflight"
ServedInv ==
  /\ active \in served /\ served \subseteq Used
  /\ Versions("RETIRED") \subseteq served \/ NoReleases
PromiseInv == ServedInv /\ \A s \in Session : PromiseOf(s)

\* Without an ACTIVE version no release has passed, or passes, its preflight.
LEMMA PastPreflight ==
  ASSUME ServedInv, NEW s \in Session, script[s].kind \in ReleaseKind,
         script[s].step # "preflight" \/ Versions("ACTIVE") # {}
  PROVE  Versions("RETIRED") \subseteq served
BY DEF ServedInv, NoReleases

\* The files of the other sessions, in a step that changes no row.
LEMMA PromiseOfOne ==
  ASSUME PromiseInv, NEW s \in Session, Others(s),
         UNCHANGED <<active, candidate, served, status>>, PromiseOf(s)',
         script'[s].kind \in ReleaseKind =>
           \/ script'[s].step = "preflight" \/ Versions("ACTIVE") # {}
           \/ script[s].kind \in ReleaseKind /\ script[s].step # "preflight"
  PROVE  PromiseInv'
<1>1. Used' = Used /\ Versions("RETIRED")' = Versions("RETIRED")
      /\ Versions("ACTIVE")' = Versions("ACTIVE")
  BY DEF Used, Versions
<1>2. ASSUME NEW t \in Session \ {s}
      PROVE  PromiseOf(t)'
  BY <1>1, <1>2 DEF PromiseInv, Others, PromiseOf, ActivateRows, Doing, At
<1>3. ServedInv'
  <2>1. CASE Versions("RETIRED") \subseteq served
    BY <1>1, <2>1 DEF PromiseInv, ServedInv
  <2>2. CASE NoReleases
    <3>1. script'[s].kind \in ReleaseKind => script'[s].step = "preflight"
      BY <2>2 DEF NoReleases
    <3>2. NoReleases'
      BY <1>1, <2>2, <3>1 DEF NoReleases, Others
    <3> QED
      BY <1>1, <3>2 DEF PromiseInv, ServedInv
  <2> QED
    BY <2>1, <2>2 DEF PromiseInv, ServedInv
<1> QED
  BY <1>2, <1>3 DEF PromiseInv

\* PromiseInv is inductive.
LEMMA PromiseStep ==
  ASSUME TypeOK, OverlapKept, PromiseInv, [Next]_vars,
         Apart("activate", "register"), Apart("activate", "decommission"),
         Apart("rollback", "decommission")
  PROVE  PromiseInv'
<1> USE DEF Doing, At, ReleaseKind
<1>1. CASE UNCHANGED vars
  BY <1>1 DEF PromiseInv, ServedInv, NoReleases, Used, Versions, PromiseOf, ActivateRows, vars
<1>2. CASE Next
  <2>1. PICK s \in Session : Others(s) /\ Does(s)
    BY <1>2, StepForms
  <2>2. /\ active \in served /\ served \subseteq Used
        /\ \A t \in Session : PromiseOf(t)
    BY DEF PromiseInv, ServedInv
  <2>3. CASE Resting(s)
    <3>1. PromiseOf(s)'
      <4>1. CASE Begins(s)
        BY <4>1 DEF Begins, PromiseOf, ActivateRows
      <4>2. CASE Finishes(s)
        BY <2>2, <4>2 DEF Finishes, PromiseOf, ActivateRows
      <4> QED
        BY <2>3, <4>1, <4>2 DEF Resting
    <3> QED
      BY <2>1, <2>3, <3>1, PromiseOfOne DEF Resting, Begins, Finishes
  <2>4. ASSUME NEW v \in Version, CheckCandidate(s, v)
        PROVE  PromiseInv'
    <3>1. v \notin served
      BY <2>2, <2>4, CheckCandidateDoes DEF Used, Versions
    <3>2. PromiseOf(s)'
      BY <2>4, <3>1, CheckCandidateDoes DEF PromiseOf, ActivateRows
    <3> QED
      BY <2>1, <2>4, <3>2, CheckCandidateDoes, PromiseOfOne
  <2>5. CASE ReadReadiness(s)
    <3>1. PromiseOf(s)'
      BY <2>2, <2>5, ReadReadinessDoes, ReadyRows DEF PromiseOf, ActivateRows
    <3>2. Versions("ACTIVE") # {}
      BY <2>5, ReadReadinessDoes DEF InvariantPass
    <3> QED
      BY <2>1, <2>5, <3>1, <3>2, ReadReadinessDoes, PromiseOfOne
  <2>6. CASE CheckEdge(s)
    <3>1. PromiseOf(s)'
      BY <2>2, <2>6, CheckEdgeDoes DEF PromiseOf, ActivateRows
    <3> QED
      BY <2>1, <2>6, <3>1, CheckEdgeDoes, PromiseOfOne
  <2>7. CASE CheckRollback(s)
    <3>1. Versions("RETIRED") \subseteq served
      BY <2>7, CheckRollbackDoes, PastPreflight DEF PromiseInv
    <3>2. script[s].to \in served
      BY <2>7, <3>1, CheckRollbackDoes, ReleaseScript DEF Versions
    <3>3. PromiseOf(s)'
      BY <2>2, <2>7, <3>2, CheckRollbackDoes DEF PromiseOf, ActivateRows
    <3> QED
      BY <2>1, <2>7, <3>3, CheckRollbackDoes, PromiseOfOne
  <2>8. CASE PublishView(s)
    <3>1. Used' = Used
      BY <2>8, PublishViewDoes DEF Used, Versions
    <3>2. PromiseOf(s)'
      BY <2>2, <2>8, <3>1, PublishViewDoes DEF PromiseOf, ActivateRows
    <3> QED
      BY <2>1, <2>8, <3>2, PublishViewDoes, PromiseOfOne
  <2>9. ASSUME MergeDataset(s) \/ MergeVersion(s)
        PROVE  PromiseInv'
    <3>1. /\ script[s].kind = "register" /\ script[s].to \in Version
          /\ script'[s].kind \in {"register", "none"}
          /\ script'[s].kind = "register" => script'[s].to = script[s].to
          /\ UNCHANGED <<active, served>>
      BY <2>9, MergeDatasetDoes, MergeVersionDoes
    <3>2. script[s].to \notin served
      BY <2>2, <3>1 DEF PromiseOf
    <3>3. /\ Versions("ACTIVE")' = Versions("ACTIVE")
          /\ Versions("RETIRED")' \subseteq Versions("RETIRED")
          /\ served \subseteq Used'
      BY <2>2, <2>9, <3>2, MergeDatasetDoes, MergeVersionDoes DEF Used, Versions
    <3>4. ServedInv'
      BY <2>1, <3>1, <3>3 DEF PromiseInv, ServedInv, NoReleases, Others
    <3>5. ASSUME NEW t \in Session
          PROVE  PromiseOf(t)'
      <4>1. CASE t = s
        BY <3>1, <3>2, <4>1 DEF PromiseOf, ActivateRows
      <4>2. CASE t # s
        <5>1. script'[t] = script[t]
          BY <2>1, <4>2 DEF Others
        <5>2. script[t].kind # "activate"
          BY <3>1, <4>2, KeptApart
        <5> QED
          BY <2>2, <3>1, <5>1, <5>2 DEF PromiseOf, ActivateRows
      <4> QED
        BY <4>1, <4>2
    <3> QED
      BY <3>4, <3>5 DEF PromiseInv
  <2>10. CASE SwitchStatuses(s)
    <3>1. Used \subseteq Used'
      BY <2>10, SwitchStatusesDoes DEF Used, Versions
    <3>2. /\ script[s].kind \in ReleaseKind /\ script[s].step = "statuses"
          /\ script[s].from \in served /\ script[s].to \in Version
          /\ script'[s].kind = script[s].kind /\ script'[s].step = "pointers"
          /\ script'[s].from = script[s].from /\ script'[s].to = script[s].to
          /\ script[s].to \in Used' \/ status[script[s].to] = "absent"
          /\ UNCHANGED <<active, candidate, served>>
      BY <2>2, <2>10, SwitchStatusesDoes DEF PromiseOf, Used, Versions
    <3>3. Versions("RETIRED") \subseteq served
      BY <3>2, PastPreflight DEF PromiseInv
    <3>4. Versions("RETIRED")' \subseteq served'
      BY <2>10, <3>2, <3>3, SwitchStatusesDoes DEF Versions
    <3>5. ServedInv'
      BY <2>2, <3>1, <3>2, <3>4 DEF ServedInv
    <3>6. candidate = NoVersion
            \/ (status'[candidate] = "absent" <=> status[candidate] = "absent")
      BY <2>10, SwitchStatusesDoes DEF TypeOK
    <3>7. ASSUME NEW t \in Session
          PROVE  PromiseOf(t)'
      <4>1. CASE t = s
        <5>1. ActivateRows(s)'
          BY <2>2, <3>2, <3>6, VersionAssumption DEF PromiseOf, ActivateRows
        <5> QED
          BY <2>2, <3>2, <4>1, <5>1 DEF PromiseOf
      <4>2. CASE t # s
        <5>1. script'[t] = script[t]
          BY <2>1, <4>2 DEF Others
        <5>2. ActivateRows(t)'
          BY <2>2, <3>1, <3>2, <3>6, <5>1 DEF PromiseOf, ActivateRows
        <5> QED
          BY <2>2, <3>2, <5>1, <5>2 DEF PromiseOf
      <4> QED
        BY <4>1, <4>2
    <3> QED
      BY <3>5, <3>7 DEF PromiseInv
  <2>11. CASE MovePointers(s)
    <3>1. Used' = Used /\ Versions("RETIRED")' = Versions("RETIRED")
      BY <2>11, MovePointersDoes DEF Used, Versions
    <3>2. /\ script[s].kind \in ReleaseKind /\ script[s].step = "pointers"
          /\ script[s].to \in Version
          /\ script'[s].kind = script[s].kind /\ script'[s].step = "retire"
          /\ script'[s].from = script[s].from /\ script'[s].to = script[s].to
          /\ UNCHANGED status
      BY <2>11, MovePointersDoes
    <3>3. Versions("RETIRED") \subseteq served
      BY <3>2, PastPreflight DEF PromiseInv
    <3>4. Expected(s) => script[s].to \in Used
      BY <2>2, <3>2 DEF PromiseOf, ActivateRows, Expected
    <3>5. /\ active' \in served' /\ served \subseteq served' /\ served' \subseteq Used
          /\ candidate' \in {candidate, NoVersion}
      BY <2>2, <2>11, <3>4, MovePointersDoes
    <3>6. script[s].kind = "rollback" => served' = served
      BY <2>2, <2>11, <3>2, MovePointersDoes DEF PromiseOf
    <3>7. ASSUME NEW t \in Session
          PROVE  PromiseOf(t)'
      <4>1. CASE t = s
        BY <2>2, <3>2, <4>1 DEF PromiseOf, ActivateRows
      <4>2. CASE t # s
        <5>1. script'[t] = script[t]
          BY <2>1, <4>2 DEF Others
        <5>2. script[t].kind = "activate" => script[t].to # NoVersion
          BY ReleaseScript, VersionAssumption
        <5>3. ActivateRows(t)'
          BY <2>2, <3>1, <3>2, <3>5, <5>1, <5>2 DEF PromiseOf, ActivateRows
        <5>4. script[t].kind = "register" => script[s].kind = "rollback"
          BY <3>2, <4>2, KeptApart
        <5> QED
          BY <2>2, <3>5, <3>6, <5>1, <5>3, <5>4 DEF PromiseOf
      <4> QED
        BY <4>1, <4>2
    <3> QED
      BY <3>1, <3>3, <3>5, <3>7 DEF PromiseInv, ServedInv
  <2>12. ASSUME WithdrawDataset(s) \/ RetireVersions(s)
         PROVE  PromiseInv'
    <3>1. /\ script[s].kind = "decommission" /\ script'[s].kind \in {"decommission", "none"}
          /\ UNCHANGED <<active, served>>
      BY <2>12, WithdrawDatasetDoes, RetireVersionsDoes
    <3>2. \A t \in Session : script[t].kind \notin ReleaseKind
      BY <3>1, KeptApart
    <3>3. \A t \in Session : script'[t].kind \notin ReleaseKind
      BY <2>1, <3>1, <3>2 DEF Others
    <3>4. ServedInv'
      <4>1. CASE WithdrawDataset(s)
        <5>1. Used' = Used /\ Versions("RETIRED")' = Versions("RETIRED")
              /\ Versions("ACTIVE")' = Versions("ACTIVE")
          BY <4>1, WithdrawDatasetDoes DEF Used, Versions
        <5> QED
          BY <3>1, <3>3, <5>1 DEF PromiseInv, ServedInv, NoReleases
      <4>2. CASE RetireVersions(s)
        <5>1. Used \subseteq Used' /\ Versions("ACTIVE")' = {}
          BY <4>2, RetireVersionsDoes DEF Used, Versions
        <5> QED
          BY <2>2, <3>1, <3>3, <5>1 DEF ServedInv, NoReleases
      <4> QED
        BY <2>12, <4>1, <4>2
    <3>5. ASSUME NEW t \in Session
          PROVE  PromiseOf(t)'
      <4>1. script'[t].kind = "register" => script'[t] = script[t]
        BY <2>1, <3>1 DEF Others
      <4> QED
        BY <2>2, <3>1, <3>3, <4>1 DEF PromiseOf, ActivateRows
    <3> QED
      BY <3>4, <3>5 DEF PromiseInv
  <2> QED
    BY <2>1, <2>3, <2>4, <2>5, <2>6, <2>7, <2>8, <2>9, <2>10, <2>11, <2>12 DEF Does
<1> QED
  BY <1>1, <1>2

\* PromiseInv holds initially.
LEMMA PromiseInit ==
  ASSUME Init
  PROVE  PromiseInv
<1>1. active \in served /\ served \subseteq Used /\ Versions("RETIRED") = {}
  BY VersionAssumption DEF Init, Used, Versions
<1> QED
  BY <1>1, OverlapInit
     DEF PromiseInv, ServedInv, PromiseOf, ActivateRows, Doing, At, ReleaseKind

\* The pointers of DATASET keep the promises of ReleasePointers, for any versions,
\* views and number of sessions, wherever files stop, if activation overlaps neither
\* registration nor decommission, and rollback not decommission: the initial state
\* is an initial state of ReleasePointers, and every step one of its steps or a
\* stutter.
THEOREM PromiseKept ==
  ASSUME Apart("activate", "register"), Apart("activate", "decommission"),
         Apart("rollback", "decommission")
  PROVE  Spec => KeepsPromise
<1> DEFINE Inv == CandidateInv /\ OverlapKept /\ PromiseInv
<1>1. Init => Inv /\ Promise!PointerInit
  <2> SUFFICES ASSUME Init PROVE Inv /\ Promise!PointerInit
    OBVIOUS
  <2>1. CandidateInv
    BY OverlapInit DEF CandidateInv, OneRegistration, PointerFree, At
  <2> QED
    BY <2>1, OverlapInit, PromiseInit DEF Init, Promise!PointerInit
<1>2. Inv /\ [Next]_vars => Inv'
  BY CandidateStep, OverlapStep, PromiseStep DEF CandidateInv
<1>3. ASSUME Inv, [Next]_vars
      PROVE  [Promise!PointerNext]_(Promise!pointerVars)
  <2> USE DEF Promise!pointerVars
  <2>0. TypeOK
    BY <1>3 DEF CandidateInv
  <2>1. CASE UNCHANGED <<active, candidate, served>>
    BY <2>1
  <2>2. ASSUME NEW s \in Session, MergeDataset(s)
        PROVE  [Promise!PointerNext]_(Promise!pointerVars)
    <3>1. /\ script[s].to \in Version /\ candidate' = script[s].to
          /\ script[s].kind = "register" /\ script[s].step = "dataset"
          /\ UNCHANGED <<active, served>>
      BY <2>0, <2>2, MergeDatasetDoes
    <3>2. candidate \in {script[s].to, NoVersion}
      BY <1>3, <3>1 DEF CandidateInv, PointerFree, At
    <3>3. script[s].to \notin served
      BY <1>3, <3>1 DEF PromiseInv, PromiseOf
    <3>4. candidate' = candidate \/ Promise!Nominate(script[s].to)
      BY <3>1, <3>2, <3>3 DEF Promise!Nominate
    <3> QED
      BY <3>1, <3>4 DEF Promise!PointerNext
  <2>3. ASSUME NEW s \in Session, MovePointers(s)
        PROVE  [Promise!PointerNext]_(Promise!pointerVars)
    <3>1. CASE ~Expected(s)
      BY <2>0, <2>3, <3>1, MovePointersDoes
    <3>2. CASE Expected(s)
      <4>1. /\ script[s].kind \in ReleaseKind /\ script[s].step = "pointers"
            /\ script[s].to \in Version
            /\ active' = script[s].to /\ candidate' = NoVersion
            /\ served' = served \cup {script[s].to}
        BY <2>0, <2>3, <3>2, MovePointersDoes
      <4>2. /\ script[s].from # script[s].to
            /\ script[s].kind = "rollback" => script[s].to \in served
        BY <1>3, <4>1 DEF PromiseInv, PromiseOf, Doing
      <4>3. CASE script[s].kind = "activate"
        BY <3>2, <4>1, <4>3, VersionAssumption
           DEF Expected, Promise!Promote, Promise!PointerNext
      <4>4. CASE script[s].kind = "rollback"
        <5>1. Promise!Return(script[s].to)
          BY <3>2, <4>1, <4>2, <4>4 DEF Expected, Promise!Return
        <5> QED
          BY <4>1, <5>1 DEF Promise!PointerNext
      <4> QED
        BY <4>1, <4>3, <4>4 DEF ReleaseKind
    <3> QED
      BY <3>1, <3>2
  <2>4. ASSUME NEW s \in Session, WithdrawDataset(s)
        PROVE  [Promise!PointerNext]_(Promise!pointerVars)
    BY <2>0, <2>4, WithdrawDatasetDoes DEF Promise!Withdraw, Promise!PointerNext
  <2>5. CASE Next
    <3>1. PICK s \in Session : Does(s)
      BY <2>0, <2>5, StepForms
    <3> QED
      BY <2>0, <2>1, <2>2, <2>3, <2>4, <3>1, CheckCandidateDoes, MergeVersionDoes,
         ReadReadinessDoes, CheckEdgeDoes, CheckRollbackDoes, PublishViewDoes,
         SwitchStatusesDoes, RetireVersionsDoes DEF Does, Resting
  <2> QED
    BY <1>3, <2>1, <2>5 DEF vars, pointers
<1> QED
  BY <1>1, <1>2, <1>3, PTL DEF Spec, KeepsPromise, Promise!PointerSpec

-----------------------------------------------------------------------------
\* Files that stop nowhere half-way leave everything in agreement, if registration
\* is kept apart from activation and decommission

\* What a file that goes on has found, and done, at each of its steps.
WholeOf(s) ==
  /\ script[s].kind = "register" =>
       /\ Versions("ACTIVE") # {} /\ Versions("DEPLOYED") \subseteq {script[s].to}
       /\ script[s].step = "dataset" => candidate \in {script[s].to, NoVersion}
       /\ script[s].step = "version" => candidate = script[s].to
  /\ Doing(s, {"activate"}, {"publish", "statuses", "pointers"}) =>
       candidate = NoVersion \/ (candidate = script[s].to /\ active = script[s].from)
  /\ Doing(s, {"activate"}, {"retire", "postflight", "verified"}) => candidate = NoVersion
  /\ At(s, {"decommission"}, "version") => candidate = NoVersion

\* The candidate is the one deployed version, except where a file is about to see
\* to it: a decommission has withdrawn it, a registration has still to write its
\* row, an activation has made it ACTIVE.  Without an ACTIVE version nothing is
\* deployed, or an activation has published a version that has no row.
Withdrawing(s) == At(s, {"decommission"}, "version")
Rewriting(s) == At(s, {"register"}, "version") \/ At(s, {"activate"}, "pointers")
Missing(s) ==
  /\ Doing(s, {"activate"}, {"pointers", "retire", "postflight"})
  /\ status[script[s].to] = "absent"
CandidateAgrees ==
  /\ Versions("DEPLOYED") \subseteq {candidate} \/ \E s \in Session : Withdrawing(s)
  /\ \/ candidate = NoVersion \/ status[candidate] = "DEPLOYED"
     \/ \E s \in Session : Rewriting(s)
  /\ candidate # active
ActiveAgrees ==
  \/ Versions("ACTIVE") # {} \/ Versions("DEPLOYED") = {}
  \/ \E s \in Session : Missing(s)
WholeInv ==
  interrupted = {} =>
    CandidateAgrees /\ ActiveAgrees /\ \A s \in Session : WholeOf(s)

\* A step that changes no row, of a file that is not about to see to anything or
\* still is after it.
LEMMA WholeOfOne ==
  ASSUME CandidateAgrees, ActiveAgrees, \A t \in Session : WholeOf(t),
         NEW s \in Session, Others(s), UNCHANGED <<active, candidate, status>>, WholeOf(s)',
         Withdrawing(s) => Withdrawing(s)', Rewriting(s) => Rewriting(s)',
         Missing(s) => Missing(s)'
  PROVE  CandidateAgrees' /\ ActiveAgrees' /\ \A t \in Session : WholeOf(t)'
<1>1. /\ Versions("ACTIVE")' = Versions("ACTIVE")
      /\ Versions("DEPLOYED")' = Versions("DEPLOYED")
  BY DEF Versions
<1>2. ASSUME NEW t \in Session \ {s}
      PROVE  /\ WholeOf(t)' /\ (Withdrawing(t) => Withdrawing(t)')
             /\ (Rewriting(t) => Rewriting(t)') /\ (Missing(t) => Missing(t)')
  BY <1>1, <1>2 DEF Others, WholeOf, Withdrawing, Rewriting, Missing, Doing, At
<1>3. \A t \in Session : /\ (Withdrawing(t) => Withdrawing(t)')
                         /\ (Rewriting(t) => Rewriting(t)') /\ (Missing(t) => Missing(t)')
  BY <1>2
<1>4. CandidateAgrees'
  BY <1>1, <1>3 DEF CandidateAgrees
<1>5. ActiveAgrees'
  BY <1>1, <1>3 DEF ActiveAgrees
<1> QED
  BY <1>2, <1>4, <1>5

\* WholeInv is inductive.
LEMMA WholeStep ==
  ASSUME CandidateInv, OverlapKept, RowsInv, WholeInv, [Next]_vars,
         Apart("activate", "register"), Apart("register", "decommission")
  PROVE  WholeInv'
<1> USE DEF Doing, At, ReleaseKind
<1>0. TypeOK /\ TypeOK'
  BY TypeStep DEF CandidateInv
<1>1. CASE UNCHANGED vars
  BY <1>1 DEF WholeInv, CandidateAgrees, ActiveAgrees, WholeOf, Withdrawing, Rewriting,
              Missing, Versions, vars
<1>2. CASE Next
  <2> SUFFICES ASSUME interrupted' = {}
               PROVE  CandidateAgrees' /\ ActiveAgrees' /\ \A t \in Session : WholeOf(t)'
    BY DEF WholeInv
  <2>1. PICK s \in Session : Others(s) /\ Does(s)
    BY <1>0, <1>2, StepForms
  <2>2. interrupted = {}
    BY <1>0, <2>1, CheckCandidateDoes, MergeDatasetDoes, MergeVersionDoes, ReadReadinessDoes,
       CheckEdgeDoes, CheckRollbackDoes, PublishViewDoes, SwitchStatusesDoes,
       MovePointersDoes, WithdrawDatasetDoes, RetireVersionsDoes DEF Does, Resting
  <2>3. CandidateAgrees /\ ActiveAgrees /\ \A t \in Session : WholeOf(t)
    BY <2>2 DEF WholeInv
  <2>4. ASSUME script[s].kind \in {"register", "activate", "decommission"},
               NEW t \in Session \ {s}
        PROVE  /\ script'[t] = script[t]
               /\ script[s].kind = "register" =>
                    script[t].kind \notin {"register", "activate", "decommission"}
               /\ script[s].kind # "register" => script[t].kind # "register"
    BY <2>1, <2>4, KeptApart DEF Others, CandidateInv, OneRegistration, Apart
  <2>5. CASE Resting(s)
    <3>1. CASE Finishes(s)
      <4>1. Missing(s) => script'[s].step # "verified"
        BY <3>1 DEF Missing, Finishes, Versions
      <4>2. WholeOf(s)'
        BY <2>3, <2>5, <3>1 DEF Resting, Finishes, WholeOf
      <4> QED
        BY <2>1, <2>3, <2>5, <3>1, <4>1, <4>2, WholeOfOne
           DEF Resting, Finishes, Withdrawing, Rewriting, Missing
    <3>2. CASE ~Finishes(s)
      <4>1. WholeOf(s)'
        BY <2>5, <3>2 DEF Resting, Begins, WholeOf
      <4>2. ~Withdrawing(s) /\ ~Rewriting(s) /\ ~Missing(s)
        BY <2>5, <3>2 DEF Resting, Withdrawing, Rewriting, Missing
      <4> QED
        BY <2>1, <2>3, <2>5, <4>1, <4>2, WholeOfOne DEF Resting
    <3> QED
      BY <3>1, <3>2
  <2>6. ASSUME NEW v \in Version, CheckCandidate(s, v)
        PROVE  CandidateAgrees' /\ ActiveAgrees' /\ \A t \in Session : WholeOf(t)'
    <3>1. WholeOf(s)'
      BY <1>0, <2>6, CheckCandidateDoes DEF WholeOf, Versions
    <3>2. ~Withdrawing(s) /\ ~Rewriting(s) /\ ~Missing(s)
      BY <1>0, <2>6, CheckCandidateDoes DEF Withdrawing, Rewriting, Missing
    <3> QED
      BY <1>0, <2>1, <2>3, <2>6, <3>1, <3>2, CheckCandidateDoes, WholeOfOne
  <2>7. ASSUME ReadReadiness(s) \/ CheckEdge(s) \/ CheckRollback(s) \/ PublishView(s)
        PROVE  CandidateAgrees' /\ ActiveAgrees' /\ \A t \in Session : WholeOf(t)'
    <3>1. WholeOf(s)'
      BY <1>0, <2>3, <2>7, ReadReadinessDoes, CheckEdgeDoes, CheckRollbackDoes, PublishViewDoes
         DEF WholeOf
    <3>2. ~Withdrawing(s) /\ ~Rewriting(s) /\ ~Missing(s)
      BY <1>0, <2>7, ReadReadinessDoes, CheckEdgeDoes, CheckRollbackDoes, PublishViewDoes
         DEF Withdrawing, Rewriting, Missing
    <3> QED
      BY <1>0, <2>1, <2>3, <2>7, <3>1, <3>2, ReadReadinessDoes, CheckEdgeDoes,
         CheckRollbackDoes, PublishViewDoes, WholeOfOne
  <2>8. ASSUME MergeDataset(s) \/ MergeVersion(s)
        PROVE  CandidateAgrees' /\ ActiveAgrees' /\ \A t \in Session : WholeOf(t)'
    <3>1. /\ script[s].kind = "register" /\ script[s].to \in Version
          /\ candidate' = script[s].to /\ active' = active
          /\ MergeDataset(s) =>
               script'[s].kind = "register" /\ script'[s].step = "version"
          /\ MergeDataset(s) => script'[s].to = script[s].to /\ status' = status
          /\ MergeVersion(s) => script'[s].kind = "none"
      BY <1>0, <2>3, <2>8, MergeDatasetDoes, MergeVersionDoes DEF WholeOf
    <3>2. script[s].to \notin Used /\ active \in Used
      BY <3>1 DEF RowsInv, RegisterRows
    <3>3. Versions("ACTIVE") # {} /\ Versions("DEPLOYED") \subseteq {script[s].to}
      BY <2>3, <3>1 DEF WholeOf
    <3>4. Versions("ACTIVE")' # {} /\ Versions("DEPLOYED")' \subseteq {script[s].to}
      BY <1>0, <2>8, <3>1, <3>2, <3>3, MergeVersionDoes DEF Versions, Used
    <3>5. MergeVersion(s) => status'[candidate'] = "DEPLOYED"
      BY <1>0, <3>1, <3>2, MergeVersionDoes DEF Versions, Used
    <3>6. MergeDataset(s) => Rewriting(s)'
      BY <3>1 DEF Rewriting
    <3>7. CandidateAgrees' /\ ActiveAgrees'
      BY <2>8, <3>1, <3>2, <3>4, <3>5, <3>6 DEF CandidateAgrees, ActiveAgrees
    <3>8. WholeOf(s)'
      BY <2>8, <3>1, <3>4 DEF WholeOf
    <3>9. ASSUME NEW t \in Session \ {s}
          PROVE  WholeOf(t)'
      BY <2>4, <3>1, <3>9 DEF WholeOf
    <3> QED
      BY <3>7, <3>8, <3>9
  <2>9. CASE SwitchStatuses(s)
    <3>1. /\ script[s].kind \in ReleaseKind /\ script[s].step = "statuses"
          /\ script'[s].kind = script[s].kind /\ script'[s].step = "pointers"
          /\ script[s].from \in Version /\ script'[s].from = script[s].from
          /\ script[s].to \in Version /\ script'[s].to = script[s].to
          /\ UNCHANGED <<active, candidate>>
      BY <1>0, <2>9, SwitchStatusesDoes
    <3>2. Versions("DEPLOYED")' \subseteq Versions("DEPLOYED")
      BY <1>0, <2>9, SwitchStatusesDoes DEF Versions
    <3>3. \/ Versions("ACTIVE")' # {}
          \/ status[script[s].to] = "absent" /\ status'[script[s].to] = "absent"
      BY <1>0, <2>9, SwitchStatusesDoes DEF Versions
    <3>4. \A t \in Session \ {s} : script'[t] = script[t]
      BY <2>1 DEF Others
    <3>5. Versions("DEPLOYED")' \subseteq {candidate'} \/ \E t \in Session : Withdrawing(t)'
      <4>1. ~Withdrawing(s)
        BY <3>1 DEF Withdrawing
      <4> QED
        BY <2>3, <3>1, <3>2, <3>4, <4>1 DEF CandidateAgrees, Withdrawing
    <3>6. CASE script[s].kind = "activate"
      <4>1. Rewriting(s)'
        BY <3>1, <3>6 DEF Rewriting
      <4>2. CandidateAgrees'
        BY <2>3, <3>1, <3>5, <4>1 DEF CandidateAgrees
      <4>3. Versions("ACTIVE")' # {} \/ Missing(s)'
        BY <3>1, <3>3, <3>6 DEF Missing
      <4>4. ActiveAgrees'
        BY <4>3 DEF ActiveAgrees
      <4>5. ASSUME NEW t \in Session
            PROVE  WholeOf(t)'
        <5>1. CASE t = s
          BY <2>3, <3>1, <3>6, <5>1 DEF WholeOf
        <5>2. CASE t # s
          BY <2>3, <2>4, <3>1, <3>4, <3>6, <5>2 DEF WholeOf
        <5> QED
          BY <5>1, <5>2
      <4> QED
        BY <4>2, <4>4, <4>5
    <3>7. CASE script[s].kind = "rollback"
      <4>1. script[s].from \in Used /\ script[s].to \in Used
        BY <3>1, <3>7 DEF RowsInv, RollbackRows
      <4>2. Versions("ACTIVE")' # {}
        BY <3>3, <4>1 DEF Used, Versions
      <4>3. status[candidate] = "DEPLOYED" /\ candidate # NoVersion =>
              status'[candidate] = "DEPLOYED"
        BY <1>0, <2>9, <4>1, SwitchStatusesDoes DEF Used, Versions, TypeOK
      <4>4. \A t \in Session : Rewriting(t) => Rewriting(t)'
        BY <3>1, <3>4, <3>7 DEF Rewriting
      <4>5. CandidateAgrees'
        BY <2>3, <3>1, <3>5, <4>3, <4>4 DEF CandidateAgrees
      <4>6. ActiveAgrees'
        BY <4>2 DEF ActiveAgrees
      <4>7. ASSUME NEW t \in Session
            PROVE  WholeOf(t)'
        <5>1. CASE t = s
          BY <3>1, <3>7, <5>1 DEF WholeOf
        <5>2. CASE t # s
          BY <2>3, <3>1, <3>2, <3>4, <4>2, <5>2 DEF WholeOf
        <5> QED
          BY <5>1, <5>2
      <4> QED
        BY <4>5, <4>6, <4>7
    <3> QED
      BY <3>1, <3>6, <3>7
  <2>10. CASE MovePointers(s)
    <3>1. /\ script[s].kind \in ReleaseKind /\ script[s].step = "pointers"
          /\ script'[s].kind = script[s].kind /\ script'[s].step = "retire"
          /\ script[s].from \in Version /\ script'[s].from = script[s].from
          /\ script[s].to \in Version /\ script'[s].to = script[s].to
          /\ Expected(s) => active' = script[s].to /\ candidate' = NoVersion
          /\ ~Expected(s) => UNCHANGED <<active, candidate>>
          /\ UNCHANGED status
      BY <1>0, <2>10, MovePointersDoes
    <3>2. \A t \in Session \ {s} : script'[t] = script[t]
      BY <2>1 DEF Others
    <3>3. /\ Versions("ACTIVE")' = Versions("ACTIVE")
          /\ Versions("DEPLOYED")' = Versions("DEPLOYED")
      BY <3>1 DEF Versions
    <3>4. ActiveAgrees'
      <4>1. \A t \in Session : Missing(t) => Missing(t)'
        BY <3>1, <3>2 DEF Missing
      <4> QED
        BY <2>3, <3>3, <4>1 DEF ActiveAgrees
    <3>5. CASE script[s].kind = "activate"
      <4>1. candidate' = NoVersion
        BY <2>3, <3>1, <3>5 DEF WholeOf, Expected
      <4>2. candidate # NoVersion => candidate \in Used
        BY <2>3, <3>1, <3>5 DEF RowsInv, ActivateRows, WholeOf
      <4>3. Versions("DEPLOYED")' \subseteq {candidate'} \/ \E t \in Session : Withdrawing(t)'
        <5>1. Versions("DEPLOYED") \subseteq {candidate} \/ \E t \in Session : Withdrawing(t)
          BY <2>3 DEF CandidateAgrees
        <5>2. \A t \in Session : Withdrawing(t) => Withdrawing(t)'
          BY <3>1, <3>2 DEF Withdrawing
        <5>3. candidate \notin Used \/ candidate \notin Versions("DEPLOYED")
          BY DEF Used, Versions
        <5> QED
          BY <3>3, <4>1, <4>2, <5>1, <5>2, <5>3
      <4>4. CandidateAgrees'
        BY <1>0, <4>1, <4>3, VersionAssumption DEF CandidateAgrees, TypeOK
      <4>5. ASSUME NEW t \in Session
            PROVE  WholeOf(t)'
        <5>1. CASE t = s
          BY <3>1, <3>5, <4>1, <5>1 DEF WholeOf
        <5>2. CASE t # s
          BY <2>4, <3>5, <4>1, <5>2 DEF WholeOf
        <5> QED
          BY <5>1, <5>2
      <4> QED
        BY <3>4, <4>4, <4>5
    <3>6. CASE script[s].kind = "rollback"
      <4>1. candidate' = candidate /\ (candidate # NoVersion => active' = active)
        BY <3>1, <3>6 DEF Expected
      <4>2. \A t \in Session : /\ Withdrawing(t) => Withdrawing(t)'
                               /\ Rewriting(t) => Rewriting(t)'
        BY <3>1, <3>2, <3>6 DEF Withdrawing, Rewriting
      <4>3. candidate' # active'
        BY <1>0, <2>3, <4>1, VersionAssumption DEF CandidateAgrees, TypeOK
      <4>4. CandidateAgrees'
        BY <2>3, <3>1, <3>3, <4>1, <4>2, <4>3 DEF CandidateAgrees
      <4>5. ASSUME NEW t \in Session
            PROVE  WholeOf(t)'
        <5>1. CASE t = s
          BY <3>1, <3>6, <5>1 DEF WholeOf
        <5>2. CASE t # s
          BY <2>3, <3>2, <3>3, <4>1, <5>2 DEF WholeOf
        <5> QED
          BY <5>1, <5>2
      <4> QED
        BY <3>4, <4>4, <4>5
    <3> QED
      BY <3>1, <3>5, <3>6
  <2>11. ASSUME WithdrawDataset(s) \/ RetireVersions(s)
         PROVE  CandidateAgrees' /\ ActiveAgrees' /\ \A t \in Session : WholeOf(t)'
    <3>1. /\ script[s].kind = "decommission" /\ script'[s].kind \in {"decommission", "none"}
          /\ candidate' = NoVersion /\ active' = active
          /\ WithdrawDataset(s) => script'[s].kind = "decommission" /\ status' = status
          /\ WithdrawDataset(s) => script'[s].step = "version"
      BY <1>0, <2>3, <2>11, WithdrawDatasetDoes, RetireVersionsDoes DEF WholeOf
    <3>2. RetireVersions(s) => Versions("DEPLOYED")' = {}
      BY <1>0, RetireVersionsDoes DEF Versions
    <3>3. WithdrawDataset(s) => Withdrawing(s)'
      BY <3>1 DEF Withdrawing
    <3>4. CandidateAgrees'
      BY <1>0, <2>11, <3>1, <3>2, <3>3, VersionAssumption DEF CandidateAgrees, TypeOK
    <3>5. ActiveAgrees'
      <4>1. CASE RetireVersions(s)
        BY <3>2, <4>1 DEF ActiveAgrees
      <4>2. CASE WithdrawDataset(s)
        <5>1. \A t \in Session : Missing(t) => Missing(t)'
          BY <2>1, <3>1, <4>2 DEF Missing, Others
        <5>2. /\ Versions("ACTIVE")' = Versions("ACTIVE")
              /\ Versions("DEPLOYED")' = Versions("DEPLOYED")
          BY <3>1, <4>2 DEF Versions
        <5> QED
          BY <2>3, <5>1, <5>2 DEF ActiveAgrees
      <4> QED
        BY <2>11, <4>1, <4>2
    <3>6. ASSUME NEW t \in Session
          PROVE  WholeOf(t)'
      <4>1. CASE t = s
        BY <3>1, <4>1 DEF WholeOf
      <4>2. CASE t # s
        BY <2>4, <3>1, <4>2 DEF WholeOf
      <4> QED
        BY <4>1, <4>2
    <3> QED
      BY <3>4, <3>5, <3>6
  <2> QED
    BY <2>1, <2>5, <2>6, <2>7, <2>8, <2>9, <2>10, <2>11 DEF Does
<1> QED
  BY <1>1, <1>2

\* For any versions, views and number of sessions: files none of which has stopped
\* half-way leave the published views, the pointers and the statuses in agreement, if
\* registration overlaps neither activation nor decommission.  Activations, rollbacks
\* and decommissions may overlap each other: the postflight refuses what they spoil.
THEOREM FilesLeaveItWhole ==
  ASSUME Apart("activate", "register"), Apart("register", "decommission")
  PROVE  Spec => []WholeBetweenFiles
<1> DEFINE Inv == CandidateInv /\ OverlapKept /\ RowsInv /\ WholeInv /\ FinishedInv
<1>1. Init => Inv
  <2> SUFFICES ASSUME Init PROVE Inv
    OBVIOUS
  <2>1. CandidateInv
    BY OverlapInit DEF CandidateInv, OneRegistration, PointerFree, At
  <2>2. Versions("ACTIVE") = {FirstVersion} /\ Versions("DEPLOYED") = {}
    BY VersionAssumption DEF Init, Versions
  <2>3. WholeInv
    BY <2>2, OverlapInit, VersionAssumption
       DEF Init, WholeInv, CandidateAgrees, ActiveAgrees, WholeOf, Doing, At
  <2>4. FinishedInv
    BY <2>2 DEF Init, FinishedInv, Finished
  <2> QED
    BY <2>1, <2>3, <2>4, OverlapInit, RowsInit
<1>2. Inv /\ [Next]_vars => Inv'
  BY CandidateStep, OverlapStep, RowsStep, WholeStep, FinishedStep DEF CandidateInv
<1>3. Inv => WholeBetweenFiles
  <2> SUFFICES ASSUME Inv, Idle, interrupted = {}
               PROVE  /\ \A i \in 1..ViewCount : view[i] = active
                      /\ InvariantPass \/ Versions("ACTIVE") \cup Versions("DEPLOYED") = {}
    BY DEF WholeBetweenFiles
  <2>1. \A s \in Session : script[s].kind = "none"
    BY DEF Idle, NoScript
  <2>2. Finished
    BY <2>1 DEF FinishedInv, Quiet, ReleaseKind
  <2>3. /\ Versions("DEPLOYED") \subseteq {candidate}
        /\ candidate = NoVersion \/ status[candidate] = "DEPLOYED"
        /\ candidate # active
        /\ Versions("ACTIVE") # {} \/ Versions("DEPLOYED") = {}
    BY <2>1 DEF WholeInv, CandidateAgrees, ActiveAgrees, Withdrawing, Rewriting, Missing,
                Doing, At
  <2>4. Versions("DEPLOYED") = {candidate} \ {NoVersion}
    BY <2>3, VersionAssumption DEF CandidateInv, TypeOK, Versions
  <2> QED
    BY <2>2, <2>3, <2>4 DEF Finished, InvariantPass
<1> QED
  BY <1>1, <1>2, <1>3, PTL DEF Spec
=============================================================================
