SPECIFICATION Spec
CONSTANTS
  Writers = {w1, w2}
  Readers = {r1}
  Bytes = {0, 1}
  PIPESIZE = 2
  UINT = 4
  MAXN = 3
  NoProc = NoProc
SYMMETRY Symmetry
INVARIANTS
  SleepersHaveReason
PROPERTIES
  ImplementsFifo
