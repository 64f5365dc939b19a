CONSTANTS
  v1 = v1
  v2 = v2
  v3 = v3
  Version <- MCVersion
  NoVersion = NoVersion
  FirstVersion = v1
  ViewCount = 1
  Session = {s1, s2}
  ScriptKind <- ReleaseAndDecommission
  Overlap <- Anything
SPECIFICATION Spec
SYMMETRY FileSymmetry
INVARIANT SuccessIsWhole
PROPERTY CandidateNeverOverwritten
