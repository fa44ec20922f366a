SPECIFICATION FairSpec
CONSTANTS
  c1 = c1
  CPUs <- MCCPUs
  NProc = 2
  NoCPU = NoCPU
  NoProc = 0
PROPERTY RunnableRuns
