SPECIFICATION FairSpec
CONSTANTS
  Conn = {c1, c2}
  NoConn = NoConn
  FD = {4, 5}
  Master = 3
  MaxBytes = 2
  BufSize = 2
  SndBuf = 1
INVARIANTS
  WatchedIsOpen
  EventsStayTrue
  ErrorSendIsVain
PROPERTIES
  EchoServiceSpec
  EveryoneIsServed
CHECK_DEADLOCK FALSE
