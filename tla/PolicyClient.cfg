SPECIFICATION FairSpec
CONSTANTS
  Call = {c1, c2}
  NoBundle = NoBundle
  MaxBundles = 3
  Settings <- RacingOrSerial
INVARIANTS
  TypeOK
  DurableFirst
  NoEquivocation
  FreshAnswer
PROPERTIES
  OrderlyEpochMonotonic
  AcknowledgementConverges
