SPECIFICATION Spec
CONSTANTS
  Handle = {h1, h2}
  Req = {r1, r2}
  Uid <- OneUser
  None = None
  MaxConcurrent = 3
  Buffer = 1
  SlowHumans = TRUE
SYMMETRY Symmetry
CHECK_DEADLOCK FALSE
INVARIANT
  OwnVerdict
