--------------------------- MODULE MCPoolInstance ---------------------------
\* Model-checking instances of PoolInstance.
EXTENDS PoolInstance
=============================================================================
