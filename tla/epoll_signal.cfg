SPECIFICATION Spec
CONSTANTS
  Conn = {c1, c2}
  NoConn = NoConn
  FD = {4, 5}
  Master = 3
  MaxBytes = 1
  BufSize = 1
  SndBuf = 1
  MaxEvents = 1
  MaxSignals = 1
INVARIANT
  WaitsForever
CHECK_DEADLOCK FALSE
