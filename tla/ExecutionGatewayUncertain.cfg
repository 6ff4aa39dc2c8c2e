SPECIFICATION Spec
CONSTANTS
  Intent = {i1}
  Run = {r1}
  Limit = 1
  Window = 2
  GrantTtl = 2
  PermitTtl = 1
  Dispatch = TRUE
  EvidenceMayFail = FALSE
  MaxClock = 3
INVARIANTS
  FailureHadNoEffect
CHECK_DEADLOCK FALSE
