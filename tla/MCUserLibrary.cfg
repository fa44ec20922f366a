SPECIFICATION LibSpec
CONSTANTS
  Capacity = 3
  Bytes = {0, 1}
  MaxBytes = 7
  HeaderSize = 2
  ChunkUnits = 4
  MaxUnits = 9
  Requests = {0, 2, 7}
  W = 8
  MAXARGS = 3
  BufferSize = 4
  MaxText <- TextLengths
INVARIANTS SlicesApart NoAssertFails HeapIsIntact ParseIsGrammar SplitDoesNotMatter FunctionsCompute
PROPERTY IsByteStream
CHECK_DEADLOCK FALSE
