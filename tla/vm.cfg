SPECIFICATION Spec
CONSTANTS
  NPROC = 2
  NPAGES = 17
  NPTE = 3
  PGSIZE = 2
  USERSTACK = 1
  MAXARG = 1
  Images <- MCImages
  Grow <- MCGrow
  UINT = 256
INVARIANTS
  
  SizeIsMapped
  UserPagesOnly
