SPECIFICATION Spec
CONSTANTS
  Intent = {i1}
  Run = {r1, r2, r3}
  Limit = 1
  Window = 2
  GrantTtl = 3
  PermitTtl = 2
  Dispatch = TRUE
  EvidenceMayFail = TRUE
  MaxClock = 4
SYMMETRY Symmetry
INVARIANTS
  TypeOK
  OneInvocation
  RefusalIsFinal
  ExecutedIsRecorded
PROPERTIES
  TraceNeverReopens
  CalledInTime
CHECK_DEADLOCK FALSE
