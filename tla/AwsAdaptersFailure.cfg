SPECIFICATION Spec
CONSTANTS
  Instance = {"x", "y"}
  TagSets = {{"disposable"}, {"prod"}}
  Required = "disposable"
  ContractTtl = 1
  SessionTtl = 2
  MaxClock = 2
  MaxAllowed = 1
  AllowHighRisk = FALSE
INVARIANTS
  FailureIsConfirmed
\* One proposal, and the clock at its bound.
CHECK_DEADLOCK FALSE
