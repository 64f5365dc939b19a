CONSTANTS
  duplicate_key = duplicate_key
  null_key = null_key
  row_count = row_count
  key_uniqueness = key_uniqueness
  Validation <- MCValidation
  Comparison <- MCComparison
  HardCheck = {key_uniqueness}
  RunPerCheck = FALSE
  Session = {s1, s2}
  FileKind <- AllKinds
  Overlap <- Disciplined
  AllowReview = TRUE
  BesideRelease <- NoRuns
SPECIFICATION ReleaseSpec
SYMMETRY SessionSymmetry
INVARIANTS
  TypeOK
  CountedIsCurrent
  RunBlocks
PROPERTY PublishedAsAccepted
