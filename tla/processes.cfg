SPECIFICATION AllSpec
CONSTANTS
  N = 3
  Cap = 2
  MaxOut = 3
  Letter = {"a"}
  MaxLine = 8
  Client = {c1, c3}
  Telnet = {c3}
  NoClient = NoClient
  Text = 2
  Answer = 2
  AskFor = 3
  MaxWords = 3
  MaxVisits = 2
  BufWords = 2
  PipeWords = 2
  MaxSent = 3
  MaxMsg = 2
  Run = {1, 2, 3}
  Guest = {3}
  NoRun = 0
  MaxSum = 2
  MaxOthers = 3
INVARIANTS
  InputIsNeighbour
  CommandsAreTheLine
  NullNameIsGap
  OnlyTypedComesOut
  AloneIsRight
  NothingPassesTheChild
PROPERTIES
  FullForEver
  PipelineEnds
  EveryClientEnds
  FirstIsWritten
  NoZombie
CHECK_DEADLOCK FALSE
