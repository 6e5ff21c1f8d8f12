SPECIFICATION StartupSpec
CONSTANTS
  Conn = {c1, c2, c3}
  Contents = {1, 2, 3}
  Valid = {1, 3}
  NoHash = NoHash
  NoConn = NoConn
  MaxEdits = 2
  Reverts = FALSE
  EditsAtStartup = TRUE
  Enrolment = {e1, e2}
  Method <- MethodOf
  Absent = Absent
  TooShort = TooShort
SYMMETRY Symmetry
CHECK_DEADLOCK FALSE
INVARIANTS
  OneReloader
  FreshUnlessRaced
  RefusedUnlessRaced
  HashNotAheadUnlessRaced
  StartupTypeOK
  ApproverAsLoaded
PROPERTIES
  NeverBackwards
  StartupRaceHeals
