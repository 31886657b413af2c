SPECIFICATION AllSpec
CONSTANTS
  Rounds = 10
  Bytes = 5
  Word = 8
  Value = {0, 1, 2}
  MaxBlocks = 3
  Mutex = mx
  Spin = mspin
  ReadLock = mread
  WriteLock = mwrite
  Sums = 6
  Turns = 5
  MaxTeam = 3
  Ranks = 4
  Numbers = {0, 2}
  Powers = {0, 3}
  MaxTerms = 3
INVARIANTS
  FinalRange
  BlocksDisjoint
  ContentsKept
  ResultsAreSequential
  OutputInOrder
  DerivativeIsRight
PROPERTIES
  EndsWithThreeWaiting
  EverybodyOrNobody
CHECK_DEADLOCK FALSE
