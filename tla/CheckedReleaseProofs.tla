----------------------- MODULE CheckedReleaseProofs -----------------------
(***************************************************************************)
(* Proofs about CheckedRelease: what is published is what was accepted,    *)
(* for any checks and sessions, if a run has no company but comparisons    *)
(* and none is executed beside the activate file.                          *)
(***************************************************************************)
EXTENDS CheckedRelease, ReleaseEvidenceProofs

\* What the activate file relies on while it is executed.
Permitted == IF AllowReview THEN CompareCheck \ HardCheck ELSE {}
AcceptedInv ==
  release # NoRelease =>
    /\ Quiet
    /\ release.counted \cap flaws = release.reviewed
    /\ release.reviewed \subseteq Permitted

\* Beside the evidence the activate file only takes stuttering steps.
LEMMA EvidenceUnderRelease == ReleaseSpec => Spec
<1>1. ReleaseInit => Init
  BY DEF ReleaseInit
<1>2. [ReleaseNext]_releaseVars => [Next]_vars
  BY DEF ReleaseNext, releaseVars, ReadReadiness, PublishViews, StopRelease, OtherStep,
         vars, evidence
<1> QED
  BY <1>1, <1>2, PTL DEF ReleaseSpec, Spec

\* The preflight accepts no failed check that must not fail, and what it counts is
\* about the data of that moment.
LEMMA Accepted ==
  ASSUME EvidenceInv, Accepts
  PROVE  /\ Counted \cap flaws = Reviewed
         /\ Reviewed \subseteq Permitted
<1>1. Readiness # "BLOCKED"
  BY DEF Accepts
<1>2. ~Blocked /\ (~AllowReview => ~ComparisonForReview)
  BY <1>1 DEF Accepts, Readiness
<1>3. \A r \in dq \cup compared : r.failed <=> r.check \in flaws
  BY <1>1, InvariantCounts
<1>4. Counted \cap flaws = Reviewed
  BY <1>3 DEF Counted, Reviewed
<1>5. ASSUME NEW r \in dq \cup compared, r.failed
      PROVE  r.check \in Permitted
  <2>1. r \in compared /\ r.check \notin HardCheck
    BY <1>2, <1>5 DEF Blocked, DqFailed, ComparisonFailed
  <2>2. r.check \in CompareCheck
    BY <2>1 DEF EvidenceInv, TypeOK, Result
  <2>3. AllowReview
    BY <1>2, <1>5, <2>1 DEF ComparisonForReview
  <2> QED
    BY <2>1, <2>2, <2>3 DEF Permitted
<1> QED
  BY <1>4, <1>5 DEF Reviewed

\* Data changes only by the COMMIT of a run and by a replay.
LEMMA DataKept ==
  ASSUME TypeOK, Next, ~Replay, \A s \in Session : script[s].kind \notin RunKind
  PROVE  flaws' = flaws
<1>1. PICK s \in Session : Execute(s)
  BY DEF Next
<1>2. ~CommitRun(s)
  BY ScriptOf DEF CommitRun, At
<1> QED
  BY <1>1, <1>2 DEF Execute, StartRun, FailRun, RecordRun, StartValidation, MeasureCheck,
                    RecordCheck, StartComparison, RecordComparison, Stop

\* A step keeps what the file relies on.
LEMMA AcceptedStep ==
  ASSUME DataStands, EvidenceInv, AcceptedInv, [ReleaseNext]_releaseVars
  PROVE  AcceptedInv'
<1> SUFFICES ASSUME release' # NoRelease
             PROVE  /\ Quiet'
                    /\ release'.counted \cap flaws' = release'.reviewed
                    /\ release'.reviewed \subseteq Permitted
  BY DEF AcceptedInv, Permitted
<1>1. CASE ReadReadiness
  <2>1. /\ release' = [open |-> TRUE, counted |-> Counted, reviewed |-> Reviewed]
        /\ UNCHANGED <<flaws, script>> /\ Quiet
    BY <1>1 DEF ReadReadiness, vars
  <2>2. Counted \cap flaws = Reviewed /\ Reviewed \subseteq Permitted
    BY <1>1, Accepted DEF ReadReadiness
  <2>3. release'.counted = Counted /\ release'.reviewed = Reviewed
    BY <2>1
  <2> QED
    BY <2>1, <2>2, <2>3 DEF Quiet
<1>2. CASE PublishViews \/ StopRelease
  BY <1>2 DEF PublishViews, StopRelease
<1>3. CASE OtherStep
  <2>1. release' = release /\ Quiet' /\ Quiet
    BY <1>3 DEF OtherStep, AcceptedInv
  <2>2. ~Replay
    BY <1>3, <2>1 DEF OtherStep, DataStands
  <2>3. \A s \in Session : script[s].kind \notin RunKind
    BY <2>1 DEF Quiet, DataStands, RunKind
  <2>4. flaws' = flaws
    BY <1>3, <2>2, <2>3, DataKept DEF OtherStep, EvidenceInv
  <2> QED
    BY <2>1, <2>4 DEF AcceptedInv
<1>4. CASE UNCHANGED releaseVars
  BY <1>4 DEF releaseVars, AcceptedInv, Quiet
<1> QED
  BY <1>1, <1>2, <1>3, <1>4 DEF ReleaseNext

\* For any checks and sessions: what an activate file publishes fails exactly the
\* checks that the operator has accepted (release_operations.py).
THEOREM PublishedWasAccepted ==
  ASSUME RunsAlone, DataStands PROVE ReleaseSpec => PublishedAsAccepted
<1>1. ReleaseSpec => []EvidenceInv
  BY EvidenceUnderRelease, EvidenceInvariant
<1>2. ReleaseInit => AcceptedInv
  BY DEF ReleaseInit, AcceptedInv
<1>3. EvidenceInv /\ AcceptedInv /\ [ReleaseNext]_releaseVars => AcceptedInv'
  BY AcceptedStep
<1>4. AcceptedInv /\ [ReleaseNext]_releaseVars =>
        [~published /\ published' =>
           /\ release.counted \cap flaws = release.reviewed
           /\ release.reviewed \subseteq (IF AllowReview THEN CompareCheck \ HardCheck ELSE {})
        ]_releaseVars
  BY DEF AcceptedInv, Permitted, ReleaseNext, ReadReadiness, PublishViews, StopRelease,
         OtherStep, releaseVars
<1> QED
  BY <1>1, <1>2, <1>3, <1>4, PTL DEF ReleaseSpec, PublishedAsAccepted
=============================================================================
