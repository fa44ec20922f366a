SPECIFICATION FairSpec
CONSTANTS
  NProc = 3
  MaxPid = 3
  KillTargets = {2}
  AllocMayFail = TRUE
  NoProc = 0
INVARIANTS NoOrphan NoMissedChild
PROPERTY OrphanReaped
