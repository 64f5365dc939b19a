CONSTANTS
  c1 = c1
  c2 = c2
  s1 = s1
  v1 = v1
  v2 = v2
  v3 = v3
  v4 = v4
  v5 = v5
  original = original
  edited = edited
  Path <- MCPath
  ControlPath <- MCControlPath
  Checksum = {original, edited}
  Revision <- AllRevisions
  ControlManifest <- MCControlManifest
  SilverManifest <- MCSilverManifest
  FileSum <- MCFileSum
  Runner = {w1, w2}
  Engineer = {e1}
  MaxRows = 2
SPECIFICATION FairSpec
INVARIANTS
  TypeOK
  AtMostOnce
  SuccessIsReal
  InOrder
  SequenceLocked
PROPERTIES
  UnblockedByReview
  ImplementsLedger
  DeploymentEnds
