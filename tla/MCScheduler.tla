---------------------------- MODULE MCScheduler ----------------------------
EXTENDS Scheduler, TLC
CONSTANTS c1, c2
MCCPUs == {c1, c2}
Symmetry == Permutations(MCCPUs)
=============================================================================
