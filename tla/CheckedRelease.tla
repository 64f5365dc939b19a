------------------------- MODULE CheckedRelease -------------------------
(***************************************************************************)
(* The evidence about a candidate (ReleaseEvidence) together with the      *)
(* activate file that publishes it (release_operations.py).  The file      *)
(* reads RELEASE_READINESS_V once, at its beginning, and never again;      *)
(* ReleaseCutover has its other statements, which depend on pointers and   *)
(* statuses only.  Here it is the two that matter to the data: the         *)
(* readiness read and the replacement of the published views.              *)
(***************************************************************************)
EXTENDS ReleaseEvidence

CONSTANTS
  AllowReview,    \* the file was rendered with --allow-review-required
  BesideRelease   \* kinds of scripts executed while a release is in progress

ASSUME ReleaseAssumption == AllowReview \in BOOLEAN

VARIABLES
  release,        \* what the activate file has read, NoRelease if none is executed
  published       \* the published views select from this version

releaseVars == <<flaws, runtime, dq, compared, script, recorded, release, published>>

\* The checks with a result when readiness was read, and those of them that had
\* failed, which the operator has accepted.
NoRelease == [open |-> FALSE, counted |-> {}, reviewed |-> {}]
Preflight == [open : {TRUE}, counted : SUBSET Check, reviewed : SUBSET Check]
ReleaseTypeOK ==
  /\ release \in Preflight \cup {NoRelease}
  /\ published \in BOOLEAN

\* Faulty: the preflight looks for a review only.
AcceptsUnlessReview == AllowReview \/ ~ComparisonForReview

\* The preflight of the file: BLOCKED raises, REVIEW_REQUIRED raises unless the
\* operator has accepted it.
Accepts ==
  \/ Readiness = "READY"
  \/ Readiness = "REVIEW_REQUIRED" /\ AllowReview

Counted == {r.check : r \in dq \cup compared}
Reviewed == {r.check : r \in {result \in dq \cup compared : result.failed}}

\* Only scripts of BesideRelease are in progress.
Quiet == \A s \in Session : script[s].kind \in BesideRelease \cup {"none"}

ReadReadiness ==
  /\ release = NoRelease /\ ~published
  /\ Quiet
  /\ Accepts
  /\ release' = [open |-> TRUE, counted |-> Counted, reviewed |-> Reviewed]
  /\ UNCHANGED <<vars, published>>

\* CREATE OR REPLACE VIEW; what follows in the file reads no evidence.
PublishViews ==
  /\ release # NoRelease
  /\ published' = TRUE
  /\ release' = NoRelease
  /\ UNCHANGED vars

\* The file raises between the two, or its session is lost.
StopRelease ==
  /\ release # NoRelease
  /\ release' = NoRelease
  /\ UNCHANGED <<vars, published>>

\* Runs, validations and comparisons of the version go on beside the release and
\* after it.
OtherStep ==
  /\ Next
  /\ release # NoRelease => Quiet' /\ (Replay => "replay" \in BesideRelease)
  /\ UNCHANGED <<release, published>>

ReleaseInit == Init /\ release = NoRelease /\ published = FALSE
ReleaseNext == ReadReadiness \/ PublishViews \/ StopRelease \/ OtherStep
ReleaseSpec == ReleaseInit /\ [][ReleaseNext]_releaseVars

-----------------------------------------------------------------------------
\* Properties

\* "A cutover must not create a new transformation run after accepted
\* DQ/comparison evidence and then publish it without revalidation."  If nobody
\* else does so either:
DataStands == BesideRelease \cap (RunKind \cup {"replay"}) = {}

\* then the data fails, when it is published, exactly those of the checks that
\* were counted which it failed when the file read its readiness: none, or with
\* --allow-review-required only comparisons that ask for a review
\* (release_operations.py, the activate file).
PublishedAsAccepted ==
  [][~published /\ published' =>
       /\ release.counted \cap flaws = release.reviewed
       /\ release.reviewed \subseteq (IF AllowReview THEN CompareCheck \ HardCheck ELSE {})
    ]_releaseVars
=============================================================================
