SPECIFICATION BrokerSpec
CONSTANTS
  Conn = {c1, c2}
  Contents = {1, 2}
  Valid = {1, 2}
  NoHash = NoHash
  NoConn = NoConn
  MaxEdits = 1
  Reverts = FALSE
  EditsAtStartup = FALSE
  Rules = {1, 2}
  Argv <- Argvs
  Window = 1
  MaxConcurrent = 2
  Uid <- SameUid
  AgentUids <- AgentUidsOf
  Verdict <- Verdicts
  Scopes <- ScopesOf
  NoRule = 0
  EmptyArgv <- Empty
  SocketActivated = TRUE
  id = id
  ls = ls
  mkfs = mkfs
  MaxTime = 1
  MaxCrashes = 0
SYMMETRY Symmetry
CHECK_DEADLOCK FALSE
INVARIANT
  CachedUnderSamePolicy
