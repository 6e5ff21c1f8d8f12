SPECIFICATION StartupSpec
CONSTANTS
  Conn = {c1}
  Contents = {1}
  Valid = {1}
  NoHash = NoHash
  NoConn = NoConn
  MaxEdits = 0
  Reverts = FALSE
  EditsAtStartup = FALSE
  Enrolment = {e1, e2}
  Method <- MethodOf
  Absent = Absent
  TooShort = TooShort
CHECK_DEADLOCK FALSE
PROPERTY
  OldSecretInvalid
