SPECIFICATION BrokerSpec
CONSTANTS
  Conn = {c1, c2}
  Contents = {1, 2}
  Valid = {1, 2}
  NoHash = NoHash
  NoConn = NoConn
  MaxEdits = 1
  Reverts = FALSE
  EditsAtStartup = TRUE
  Rules = {1, 2}
  Argv <- ArgvsA
  Window = 1
  MaxConcurrent = 2
  Uid <- TwoUids
  AgentUids <- AgentUidsOf
  Verdict <- Verdicts
  Scopes <- ScopesOf
  NoRule = 0
  EmptyArgv <- Empty
  SocketActivated = FALSE
  id = id
  ls = ls
  mkfs = mkfs
  MaxTime = 1
  MaxCrashes = 1
CHECK_DEADLOCK FALSE
INVARIANTS
  BrokerTypeOK
  RunsAreApproved
  AuditTruthful
  CacheBacked
PROPERTY
  ReloadSpec
  PromiseKept
