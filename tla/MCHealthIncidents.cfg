CONSTANTS
  v1 = v1
  v2 = v2
  domain_task = domain_task
  quality_task = quality_task
  operator = operator
  NoVersion = NoVersion
  NoRun = NoRun
  Version = {v1, v2}
  Refreshed = {v2}
  RefreshState = {"SKIPPED", "UPSTREAM_FAILED"}
  IngestionRun = {i1}
  SlaStage = {"END_TO_END"}
  SlaFacts <- MCSlaFacts
  ReconStage = {"BRONZE"}
  QualityRun = {q1}
  Reported <- MCReported
  Session = {s1, s2}
  Calls <- EitherEvaluator
  Task = {}
  MaxChanges = 2
SPECIFICATION Spec
SYMMETRY SessionSymmetry
INVARIANTS
  TypeOK
  OpenBounded
  RedMeansIncident
PROPERTIES
  OpenedAndResolvedForCause
CHECK_DEADLOCK FALSE
