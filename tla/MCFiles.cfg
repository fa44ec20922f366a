SPECIFICATION Spec
CONSTANTS
  p1 = p1  p2 = p2  a = a  b = b  f1 = f1  f2 = f2  d1 = d1  d2 = d2
  Procs = {p1, p2}
  NoProc = NoProc
  FirstProc = p1
  Inums = {1, 2}
  Slots = {1, 2}
  Kinds = {"file", "directory"}
  Names = {a, b}
  Files = {f1, f2}
  Fds = {d1, d2}
  OpenWhenFull = FALSE
SYMMETRY Symmetry
INVARIANTS ReferencesExact CopyIsCurrent LinksExact
           NothingDangles
