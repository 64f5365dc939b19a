------------------------ MODULE MCHealthIncidents ------------------------
(***************************************************************************)
(* Small instance: two versions, one of them a Dynamic Table, one policy   *)
(* and one reconciled stage.                                               *)
(***************************************************************************)
EXTENDS HealthIncidents, TLC

CONSTANTS v1, v2, domain_task, quality_task, operator

\* Two sessions that may call either evaluator, and the two tasks.
EitherEvaluator == [s \in Session |-> {"domain", "quality"}]
OwnEvaluator == [s \in Session |-> IF s = quality_task THEN {"quality"} ELSE {"domain"}]
SessionSymmetry == Permutations(Session)

Fact(cadence, exceeded, idle) ==
  [enabled |-> TRUE, cadence |-> cadence, exceeded |-> exceeded, configured |-> TRUE,
   sourceSeen |-> TRUE, idle |-> idle, due |-> TRUE, publishedToday |-> FALSE]
MCSlaFacts == {Fact("CONTINUOUS", FALSE, FALSE), Fact("CONTINUOUS", TRUE, FALSE)}
MCReported == {<<"ERROR", "PASS">>, <<"unknown", "unknown">>}
=============================================================================
