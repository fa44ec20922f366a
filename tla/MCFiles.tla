------------------------------ MODULE MCFiles ------------------------------
EXTENDS Files, TLC
CONSTANTS p1, p2, a, b, f1, f2, d1, d2

Symmetry == Permutations(Names) \cup Permutations(Files) \cup Permutations(Fds)
=============================================================================
