CONSTANTS
  Names = {"a", "b"}
  Restricted <- MCRestricted
  MaxLen = 4
  MaxDepth = 2
SPECIFICATION Spec
INVARIANTS TypeOK MeansWhatItSays
PROPERTIES RestrictedRefused
