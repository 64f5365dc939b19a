------------------------ MODULE MCSilverPipelines ------------------------
(***************************************************************************)
(* Small instance: of one key an insert, an update of a tracked column, a  *)
(* delete and a second insert of the state before it (which without the    *)
(* delete changes nothing); and of another key an event with the identity  *)
(* of the update.                                                          *)
(***************************************************************************)
EXTENDS SilverPipelines, TLC

CONSTANTS k1, k2, i1, i2, i3, i4, insert, change, delete, again, disagree

MCEvent == {insert, change, delete, again, disagree}
MCKeyOf == [e \in MCEvent |-> IF e = disagree THEN k2 ELSE k1]
MCIdOf == insert :> i1 @@ change :> i2 @@ disagree :> i2 @@ delete :> i3 @@ again :> i4
MCOrderOf == insert :> 1 @@ change :> 2 @@ delete :> 3 @@ disagree :> 4 @@ again :> 5
\* The delete has the time of the update before it.
MCTimeOf == insert :> 1 @@ change :> 2 @@ delete :> 2 @@ disagree :> 3 @@ again :> 3
MCStateOf == [e \in MCEvent |-> IF e = insert THEN 1 ELSE 2]

\* The source delivers the second insert again after Bronze has it.
MCCopies == [e \in MCEvent |-> IF e = again THEN 2 ELSE 1]

FullReplays == [p \in Pattern |-> {Full}]
\* The bounded window ends before the last event of each key.
BoundedReplays == [p \in Pattern |-> {Full, Bounded(2, 3)}]
=============================================================================
