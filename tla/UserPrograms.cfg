SPECIFICATION Spec
INVARIANTS TestsPass PromptMeansDone NothingLeftBehind
PROPERTY EveryProgramEnds
CONSTANTS
  NProc = 9
  NOFile = 8
  NFile = 12
  NInode = 12
  NBlocks = 12
  MaxFile = 4
  PipeSize = 2
  NPages = 20
  PGSIZE = 4
  NRingbuf = 2
  MaxPid = 14
  MAXARGS = 4
  ReadSize = 3
  Rounds = 2
  Image <- ImageOf
