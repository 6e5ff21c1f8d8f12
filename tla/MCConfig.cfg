SPECIFICATION Spec
CONSTANTS
  Token <- Tokens
  Control <- Controls
  Basename <- Basenames
  Absent = Absent
  BadPattern = BadPattern
  MaxArgv = 2
  MaxDeny = 1
  MaxAllow = 2
  MaxLine = 5
  HelpFlags = {"-h"}
  ReasonFlag = "--reason"
  OtpFlag = "--otp"
  Separator = "--"
  UnknownFlags = {"-x"}
CHECK_DEADLOCK FALSE
INVARIANTS
  EvaluateIsReference
  BundleAligned
  PathIndifferent
  RuleBites
  DefaultHolds
  LineIsReference
PROPERTY
  AppendStable
