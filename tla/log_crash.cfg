SPECIFICATION Spec
CONSTANTS
  Procs = {p1, p2}
  Readers = {p1, p2}
  Blocks = {b1, b2}
  Values = {v1, v2}
  NoBuf = NoBuf
  NoProc = NoProc
  MAXOPBLOCKS = 2
  OPBLOCKS = 2
  LOGSIZE = 6
  NLOG = 6
  MayCrash = TRUE
SYMMETRY SymmetricAll
INVARIANTS
  LogSound
  CommittedIsDurable
PROPERTIES
  ImplementsTxnDisk
  WriteAhead
