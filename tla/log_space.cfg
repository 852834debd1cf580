SPECIFICATION FairSpec
CONSTANTS
  Procs = {p1, p2, p3}
  Readers = {}
  Blocks = {b1, b2, b3, b4}
  Values = {v1}
  NoBuf = NoBuf
  NoProc = NoProc
  MAXOPBLOCKS = 2
  OPBLOCKS = 1
  LOGSIZE = 4
  NLOG = 4
  MayCrash = FALSE

  
PROPERTIES
  SleepersWake
  CommitFinishes
