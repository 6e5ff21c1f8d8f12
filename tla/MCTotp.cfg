SPECIFICATION Spec
CONSTANTS
  Req = {r1, r2, r3, r4, r5}
  NoReq = NoReq
  Skew = 1
  MaxStep = 4
  Restarts = TRUE
SYMMETRY Symmetry
CHECK_DEADLOCK FALSE
INVARIANTS
  TotpTypeOK
  OnePerStep
  CodeReuseBounded
