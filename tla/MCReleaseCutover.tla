------------------------ MODULE MCReleaseCutover ------------------------
(***************************************************************************)
(* Small instance: three versions of an scd2 dataset (two published        *)
(* views), executed by one session or by two.                              *)
(***************************************************************************)
EXTENDS ReleaseCutover, TLC

CONSTANTS v1, v2, v3

MCVersion == {v1, v2, v3}
AllKinds == ReleaseKind \cup {"register"} \cup LifecycleKind
ReleaseAndDecommission == ReleaseKind \cup {"register", "decommission"}

\* What may overlap: everything, or pause and resume beside any file.
Anything == {{a, b} : a, b \in AllKinds}
Disciplined == {{a, b} : a \in {"pause", "resume"}, b \in AllKinds} \cup {{"decommission"}}

\* Sessions are alike, and so are the versions that are not there from the start.
FileSymmetry == Permutations(Session) \cup Permutations(Version \ {FirstVersion})
=============================================================================
