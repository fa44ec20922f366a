SPECIFICATION Spec
CONSTANTS
  c1 = c1  c2 = c2  waitLock = waitLock  processLock = processLock  memoryLock = memoryLock
  CPUs <- MCCPUs
  Locks <- MCLocks
  Rank <- MCRank
  NoCPU = NoCPU
  NoLock = NoLock
SYMMETRY Symmetry
INVARIANTS MutualExclusion NoPanic NoInterruptWithLock
           InterruptsRestored
