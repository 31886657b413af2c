SPECIFICATION Spec
CONSTANTS
  Conn = {c1, c2, c3}
  NoConn = NoConn
  Session = {s1, s2, s3}
  MaxBytes = 2
  BufSize = 2
  SndBuf = 1
SYMMETRY Interchangeable
INVARIANTS
  OneOperation
  SessionsAreConnections
PROPERTIES
  ExactEchoSpec
CHECK_DEADLOCK FALSE
