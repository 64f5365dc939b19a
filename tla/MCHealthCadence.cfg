CONSTANTS
  Operation = {"every-5m", "every-15m", "maintenance"}
  Interval <- MCInterval
  ResumeAfter = {"every-5m", "every-15m"}
  ReleasedInterval = 60
  Session = {s1, s2, s3}
  MaxRows = 4
SPECIFICATION Spec
SYMMETRY SessionSymmetry
INVARIANTS
  TypeOK
  SuspendedIsExplained
  RecordedIsActual
CHECK_DEADLOCK FALSE
