SPECIFICATION FairSpec
CONSTANTS
  Call = {c1, c2}
  NoBundle = NoBundle
  MaxBundles = 3
  Settings <- RacingOnly
PROPERTIES
  PersistedEpochMonotonic
