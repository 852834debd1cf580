SPECIFICATION PartsSpec
CONSTANTS
  NPAGES = 4
  CPUs = {c1}
  Freers = {c1}
  NoCpu = NoCpu
  Users = {u1, u2}
  InitUser = u1
  NFILE = 3
  NOFILE = 2
  PipePages = {q1}
  Harts = {"h1", "h2"}
  TProcs = {"t1", "t2"}
  FirstProc = "t1"
  NoTProc = "none"
INVARIANTS
  PagesKept
  FilesCounted
  
