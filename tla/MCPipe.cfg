SPECIFICATION FairSpec
CONSTANTS
  w1 = w1  r1 = r1  x = x  y = y
  Writers = {w1}
  Readers = {r1}
  PipeSize = 2
  CountLimit = 4
  Bytes = {x, y}
  OverflowWraps = TRUE
  MaxCount = 3
  Killable = {r1}
  NoProc = NoProc
INVARIANTS NoneSleepsInVain BytesInOrder
PROPERTY WriteReturns
CHECK_DEADLOCK FALSE
