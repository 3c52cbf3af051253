----------------------------- MODULE MCKeyMutex -----------------------------
\* Model-checking instances of KeyMutex.
EXTENDS KeyMutex, TLC

Symmetry == Permutations(Procs) \cup Permutations(Mux)
=============================================================================
