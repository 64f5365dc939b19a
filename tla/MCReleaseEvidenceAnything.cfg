CONSTANTS
  duplicate_key = duplicate_key
  null_key = null_key
  row_count = row_count
  key_uniqueness = key_uniqueness
  Validation <- MCValidation
  Comparison <- OneComparison
  HardCheck = {}
  RunPerCheck = FALSE
  Session = {s1, s2}
  FileKind <- WithReplay
  Overlap <- Anything
SPECIFICATION Spec
SYMMETRY SessionSymmetry
PROPERTY FailedDqBlocks
