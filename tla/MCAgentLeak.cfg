SPECIFICATION FairSpec
CONSTANTS
  Handle = {h1, h2}
  Req = {r1, r2}
  Uid <- OneUser
  None = None
  MaxConcurrent = 3
  Buffer = 1
  SlowHumans = FALSE
CHECK_DEADLOCK FALSE
PROPERTY
  ClosedAgentReleased
