------------------------- MODULE MCHealthCadence -------------------------
(***************************************************************************)
(* Small instance: two operations that resume the task, one that leaves it *)
(* suspended, and sessions that may execute the same file.                 *)
(***************************************************************************)
EXTENDS HealthCadence, TLC

SessionSymmetry == Permutations(Session)
MCInterval == [o \in Operation |->
  CASE o = "every-5m" -> 300 [] o = "every-15m" -> 900 [] OTHER -> 691200]
=============================================================================
