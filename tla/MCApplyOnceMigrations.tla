---------------------- MODULE MCApplyOnceMigrations ----------------------
(***************************************************************************)
(* Small instance: one silver and two control migrations.  Revision v1     *)
(* ships one of each, v2 appends a control migration, v3 reorders the      *)
(* control manifest, v4 has edited the bytes of a released silver file,    *)
(* v5 has dropped a released control migration.                            *)
(***************************************************************************)
EXTENDS ApplyOnceMigrations, TLC

CONSTANTS c1, c2, s1, v1, v2, v3, v4, v5, original, edited

MCPath == {c1, c2, s1}
MCControlPath == {c1, c2}
AllRevisions == {v1, v2, v3, v4, v5}

ControlOf ==
  v1 :> <<c1>> @@ v2 :> <<c1, c2>> @@ v3 :> <<c2, c1>> @@ v4 :> <<c1>> @@ v5 :> <<c2>>
MCControlManifest == [r \in Revision |-> ControlOf[r]]
MCSilverManifest == [r \in Revision |-> <<s1>>]
MCFileSum ==
  [r \in Revision |->
     [p \in MCPath |-> IF r = v4 /\ p = s1 THEN edited ELSE original]]

RunnerSymmetry == Permutations(Runner) \cup Permutations(Engineer)
=============================================================================
