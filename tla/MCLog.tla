------------------------------- MODULE MCLog -------------------------------
EXTENDS Log, TLC
CONSTANTS p1, p2, b1, b2, b3, b4, v1, v2

MCProcs  == {p1, p2}
MCBlocks == {b1, b2, b3, b4}
MCValues == {v1, v2}
Symmetry == Permutations(MCProcs) \cup Permutations(MCBlocks)
              \cup Permutations(MCValues)
=============================================================================
