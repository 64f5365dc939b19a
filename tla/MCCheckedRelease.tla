------------------------ MODULE MCCheckedRelease ------------------------
(***************************************************************************)
(* The instance of MCReleaseEvidence and an activate file, beside which    *)
(* comparisons and validations are executed.                               *)
(***************************************************************************)
EXTENDS CheckedRelease, MCReleaseEvidence

NoRuns == {"compare", "validate"}
=============================================================================
