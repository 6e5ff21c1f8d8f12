SPECIFICATION EndToEndFairSpec
CONSTANTS
  Conn = {c1, c2}
  Contents = {3}
  Valid = {3}
  NoHash = NoHash
  NoConn = NoConn
  MaxEdits = 0
  Reverts = FALSE
  EditsAtStartup = FALSE
  Rules = {1, 2}
  Argv <- Argvs
  Window = 1
  MaxConcurrent = 1
  Uid <- SameUid
  AgentUids <- AgentUidsOf
  Verdict <- Verdicts
  Scopes <- ScopesOf
  NoRule = 0
  EmptyArgv <- Empty
  SocketActivated = TRUE
  id = id
  ls = ls
  mkfs = mkfs
  MaxTime = 0
  MaxCrashes = 1
  HelpFlags = {"-h"}
  ReasonFlag = "--reason"
  OtpFlag = "--otp"
  Separator = "--"
  UnknownFlags = {}
  Line <- Lines
  Status <- Statuses
  Fragile = {c2}
CHECK_DEADLOCK FALSE
INVARIANTS
  EndToEndTypeOK
  ExitTruthful
PROPERTY
  EveryRequestEnds
