----------------------------- MODULE MCRingMaker -----------------------------
EXTENDS RingMaker
==============================================================================
