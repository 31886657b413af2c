SPECIFICATION FairSpec
CONSTANTS
  Conn = {c1, c2}
  NoConn = NoConn
  FD = {4, 5}
  Master = 3
  MaxBytes = 2
  BufSize = 1
  SndBuf = 1
  Alias = 4
  MaxEcho = 2
  Quiet = {}
PROPERTY EndIsNoInterruption
CHECK_DEADLOCK FALSE
