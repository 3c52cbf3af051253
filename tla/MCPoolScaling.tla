--------------------------- MODULE MCPoolScaling ----------------------------
\* Model-checking instances of PoolScaling.
EXTENDS PoolScaling, TLC

Symmetry == Permutations(Names) \cup Permutations(Jobs)
=============================================================================
