----------------------------- MODULE MCJobQueue -----------------------------
\* Model-checking instances of JobQueue.
EXTENDS JobQueue, TLC

Symmetry == Permutations(Managers) \cup Permutations(Handlers)
=============================================================================
