SPECIFICATION Spec
CONSTANTS
  NPROC = 3
  CPUs = {c1, c2}
  NoCpu = NoCpu
  MAXPID = 3
  Calls = {"fork", "exit", "wait", "kill", "sleep", "fault"}
  KillPids = {2, 3}
SYMMETRY Symmetry
INVARIANTS
  SwitchesSound
  ParentsAlive
  NoMissedExit
  

  
