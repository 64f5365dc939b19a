------------------------- MODULE MCGeneratedOnce -------------------------
(***************************************************************************)
(* Small instance: two datasets and their second versions, two commands at *)
(* a time, three in all.                                                   *)
(***************************************************************************)
EXTENDS GeneratedOnce

NameSymmetry == Permutations(Command) \cup Permutations(Dataset)
AllModels == {"stream_task", "dynamic_table", "batch_sql"}
=============================================================================
