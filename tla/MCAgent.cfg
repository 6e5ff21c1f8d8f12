SPECIFICATION FairSpec
CONSTANTS
  Handle = {h1, h2}
  Req = {r1, r2, r3}
  Uid <- TwoUsers
  None = None
  MaxConcurrent = 3
  Buffer = 1
  SlowHumans = TRUE
CHECK_DEADLOCK FALSE
INVARIANTS
  AgentTypeOK
  SlotsExact
  GateAroundPrompt
  AllowUsedOnce
  RegistryServed
  DialogsAreLate
  StrayVerdictIsLate
PROPERTIES
  RequestsEnd
  
