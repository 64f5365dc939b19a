CONSTANTS
  v1 = v1
  v2 = v2
  domain_task = domain_task
  quality_task = quality_task
  operator = operator
  NoVersion = NoVersion
  NoRun = NoRun
  Version = {v1}
  Refreshed = {}
  RefreshState = {}
  IngestionRun = {}
  SlaStage = {"END_TO_END"}
  SlaFacts <- MCSlaFacts
  ReconStage = {}
  QualityRun = {}
  Reported <- MCReported
  Session = {domain_task, operator}
  Calls <- OwnEvaluator
  Task = {domain_task}
  MaxChanges = 2
SPECIFICATION Spec
PROPERTIES
  LastingConditionStaysOpen
  GoneConditionStaysResolved
CHECK_DEADLOCK FALSE
