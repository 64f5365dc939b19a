CONSTANTS
  Dataset = {customer, orders}
  Candidate = {2}
  Model <- AllModels
  BundleKind = {"decommission", "release"}
  Command = {c1, c2}
  MaxStarts = 3
SPECIFICATION Spec
SYMMETRY NameSymmetry
INVARIANTS
  TypeOK
  LeftoverDetected
  RefusedWritesNothing
PROPERTIES
  GeneratedOnceDomainOwned
  DecommissionStopsKnown
CHECK_DEADLOCK FALSE
