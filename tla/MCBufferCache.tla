--------------------------- MODULE MCBufferCache ---------------------------
EXTENDS BufferCache, TLC
CONSTANTS p1, p2, p3, b1, b2, b3

MCValues == Blocks \cup 1 .. MaxChanges
Symmetry == Permutations(Procs) \cup Permutations(Blocks)
=============================================================================
