SPECIFICATION FairSpec
CONSTANTS
  Conn = {c1, c2}
  NoConn = NoConn
  FD = {4, 5}
  Master = 3
  MaxBytes = 2
  BufSize = 2
  SndBuf = 1
  MaxStarts = 2
  Session = {s1, s2}
INVARIANTS
  OutputIsTheRest
PROPERTIES
  ComesBack
  ServesOnce
  EveryoneIsServed
CHECK_DEADLOCK FALSE
