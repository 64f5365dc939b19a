CONSTANTS
  duplicate_key = duplicate_key
  null_key = null_key
  row_count = row_count
  key_uniqueness = key_uniqueness
  Validation <- MCValidation
  Comparison <- MCComparison
  HardCheck = {key_uniqueness}
  RunPerCheck = TRUE
  Session = {s1}
  FileKind <- DynamicTableKinds
  Overlap <- Disciplined
SPECIFICATION Spec
PROPERTY FailedDqBlocks
