SPECIFICATION FairSpec
CONSTANTS
  Permit = {p1, p2}
  Gateway = {g1}
  Operation = {op1, op2}
  PermitCall = {c1, c2}
  UpdateCall = {u1, u2}
  Report = {executed, uncertain}
  NoReport = NoReport
  PermitTtl = 2
  MaxGrant = 3
  MaxEpoch = 3
INVARIANTS
  DrainHoldsTheGate
