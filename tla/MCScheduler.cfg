SPECIFICATION Spec
CONSTANTS
  c1 = c1  c2 = c2
  CPUs <- MCCPUs
  NProc = 2
  NoCPU = NoCPU
  NoProc = 0
SYMMETRY Symmetry
INVARIANTS StackExclusive NoLostWakeup
           InterruptsFollowThread
