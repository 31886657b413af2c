SPECIFICATION FairSpec
CONSTANTS
  Conn = {c1, c2}
  NoConn = NoConn
  FD = {4, 5}
  Master = 3
  MaxBytes = 2
  BufSize = 2
  SndBuf = 1
  MaxEvents = 1
  MaxSignals = 1
INVARIANTS
  EventsStayTrue
PROPERTIES
  HealthyStayConnected
  EchoServiceSpec
  EveryoneIsServed
CHECK_DEADLOCK FALSE
