----------------------------- MODULE MCSpinLock -----------------------------
EXTENDS SpinLock, TLC
CONSTANTS c1, c2, waitLock, processLock, memoryLock

MCCPUs  == {c1, c2}
MCLocks == {waitLock, processLock, memoryLock}
MCRank  == (waitLock :> 1) @@ (processLock :> 2) @@ (memoryLock :> 3)
Symmetry == Permutations(MCCPUs)
=============================================================================
