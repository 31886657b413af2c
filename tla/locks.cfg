SPECIFICATION FairSpec
CONSTANTS
  Mutex = mx
  Spin = mspin
  ReadLock = mread
  WriteLock = mwrite
PROPERTY ReaderAndWriterWait
CHECK_DEADLOCK FALSE
