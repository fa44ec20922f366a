SPECIFICATION Spec
CONSTANTS
  p1 = p1  p2 = p2  b1 = b1  b2 = b2  b3 = b3  b4 = b4  v1 = v1  v2 = v2
  Procs <- MCProcs
  Blocks <- MCBlocks
  Values <- MCValues
  MaxOpBlocks = 2
  OpWrites = 2
  LogSize = 4
  NLog = 4
  MaxCrashes = 2
  NoData = NoData
  NoBlock = NoBlock
SYMMETRY Symmetry
INVARIANT NoPanic
