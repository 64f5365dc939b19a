CONSTANTS
  v1 = v1
  v2 = v2
  v3 = v3
  Version <- MCVersion
  NoVersion = NoVersion
  FirstVersion = v1
  ViewCount = 2
  Session = {s1, s2}
  ScriptKind <- AllKinds
  Overlap <- Disciplined
SPECIFICATION Spec
SYMMETRY FileSymmetry
INVARIANTS
  TypeOK
  WholeBetweenFiles
PROPERTIES
  KeepsPromise
  OldPathAvailable
  RetiredStaysOut
