----------------------- MODULE MCReleaseEvidence -----------------------
(***************************************************************************)
(* Small instance: two DQ checks, one comparison that asks for review and  *)
(* one that fails.                                                         *)
(***************************************************************************)
EXTENDS ReleaseEvidence, TLC

CONSTANTS duplicate_key, null_key, row_count, key_uniqueness

MCValidation == <<duplicate_key, null_key>>
MCComparison == <<row_count, key_uniqueness>>
OneComparison == <<row_count>>

AllKinds == Kind
WithReplay == Kind \cup {"replay"}
\* A refresh is a run without a validation of its own.
DynamicTableKinds == Kind \ {"task"}

\* A task does not overlap itself; nobody validates or applies by hand while
\* a run is going.  Comparisons overlap everything.
Disciplined == {{"validate"}, {"compare"}} \cup {{"compare", kind} : kind \in Kind}
\* Anything at any time.
Anything == {{kind, other} : kind, other \in Kind \cup {"replay"}}

SessionSymmetry == Permutations(Session)
=============================================================================
