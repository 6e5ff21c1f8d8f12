SPECIFICATION BrokerSpec
CONSTANTS
  Conn = {c1, c2, c3}
  Contents = {4}
  Valid = {4}
  NoHash = NoHash
  NoConn = NoConn
  MaxEdits = 0
  Reverts = FALSE
  EditsAtStartup = FALSE
  Rules = {1, 2}
  Argv <- Argvs
  Window = 1
  MaxConcurrent = 2
  Uid <- SameUid
  AgentUids <- AgentUidsOf
  Verdict <- Verdicts
  Scopes <- ScopesOf
  NoRule = 0
  EmptyArgv <- Empty
  SocketActivated = TRUE
  id = id
  ls = ls
  mkfs = mkfs
  MaxTime = 1
  MaxCrashes = 0
SYMMETRY SymmetryOfFour
CHECK_DEADLOCK FALSE
INVARIANTS
  SlotsExact
  RunsBounded
  RunsAreApproved
