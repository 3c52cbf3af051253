------------------------- MODULE MCScaleSetListener -------------------------
EXTENDS ScaleSetListener
=============================================================================
