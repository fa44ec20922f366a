SPECIFICATION Spec
CONSTANTS
  p1 = p1  p2 = p2  p3 = p3  b1 = b1  b2 = b2  b3 = b3
  Procs = {p1, p2, p3}
  Blocks = {b1, b2, b3}
  Values <- MCValues
  Buffers = {1, 2, 3}
  QueueSize = 7
  MaxChanges = 1
  NoBuffer = 0
  NoBlock = NoBlock
  NoProc = NoProc
  garbage = garbage
SYMMETRY Symmetry
INVARIANTS SeesLatest NothingIsLost DeviceOwnsBuffer
           NobodyWaitsInVain
