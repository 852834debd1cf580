SPECIFICATION FairSpec
CONSTANTS
  NPROC = 3
  CPUs = {c1, c2}
  NoCpu = NoCpu
  MAXPID = 3
  Calls = {"fork", "exit", "wait"}
  KillPids = {}
PROPERTIES
  InitReaps
