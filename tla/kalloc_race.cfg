SPECIFICATION Spec
CONSTANTS
  NPAGES = 3
  CPUs = {c1, c2}
  Freers = {c1, c2}
  NoCpu = NoCpu
INVARIANTS
  PagesExclusive
