SPECIFICATION Spec
CONSTANTS
  Procs = {p1, p2}
  Names = {a, b}
  Elems = {a, b}
  Inums = {1, 2, 3}
  NINODE = 3
  MaxCalls = 2
  NoProc = NoProc
SYMMETRY Symmetry
INVARIANTS
  RefsMatchPointers
  
  NamesCounted
