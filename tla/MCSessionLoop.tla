---------------------------- MODULE MCSessionLoop ----------------------------
EXTENDS SessionLoop
=============================================================================
