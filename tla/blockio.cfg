SPECIFICATION Spec
CONSTANTS
  Procs = {p1,p2,p3}
  Blocks = {n1,n2,n3,n4}
  NBUF = 3
  NUM = 7
  NoBlock = NoBlock
  NoProc = NoProc
SYMMETRY Symmetry
INVARIANTS
  
  RequestsSound
  SleepersHaveReason
