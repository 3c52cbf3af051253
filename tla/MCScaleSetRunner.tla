--------------------------- MODULE MCScaleSetRunner ---------------------------
EXTENDS ScaleSetRunner
=============================================================================
