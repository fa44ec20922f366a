SPECIFICATION Spec
CONSTANTS
  p1 = p1  p2 = p2  n1 = n1  n2 = n2
  Procs = {p1, p2}
  Names = {n1, n2}
  MaxRingbufs = 2
  BufPages = 2
  TopPage = 13
  MaxCount = 2
  Faults = {"memory", "map", "copyOut"}
  ExecOwners = TRUE
  NoProc = NoProc
  NoName = NoName
SYMMETRY Symmetry
INVARIANTS MappedIsOwned BookkeepingCovers MirrorMapped
CHECK_DEADLOCK FALSE
