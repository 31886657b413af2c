SPECIFICATION Spec
CONSTANTS
  MaxWords = 2
  MaxVisits = 1
  BufWords = 2
  PipeWords = 2
INVARIANT EverythingIsWritten
CHECK_DEADLOCK FALSE
