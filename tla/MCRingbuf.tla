----------------------------- MODULE MCRingbuf -----------------------------
EXTENDS Ringbuf, TLC
CONSTANTS p1, p2, n1, n2

Symmetry == Permutations(Procs) \cup Permutations(Names)
=============================================================================
