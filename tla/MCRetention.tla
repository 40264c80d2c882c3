------------------------------ MODULE MCRetention ------------------------------
EXTENDS Retention, TLC

CONSTANTS c1, c2, m1, r1, r2, b1

Symmetry == Permutations(L0) \cup Permutations(Requests)
=============================================================================
