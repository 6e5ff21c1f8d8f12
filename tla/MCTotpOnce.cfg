SPECIFICATION Spec
CONSTANTS
  Req = {r1, r2}
  NoReq = NoReq
  Skew = 1
  MaxStep = 3
  Restarts = FALSE
SYMMETRY Symmetry
CHECK_DEADLOCK FALSE
INVARIANT
  CodeOnce
