----------------------------- MODULE MCRingRound -----------------------------
(* Small rings for TLC: the constants are given in the configurations.     *)
EXTENDS RingRound
==============================================================================
