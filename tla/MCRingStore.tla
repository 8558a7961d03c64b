----------------------------- MODULE MCRingStore -----------------------------
(* Small instances of RingStore. *)
EXTENDS RingStore

CONSTANTS s1, s2, i1, i2

TwoSessions == {s1, s2}
OneInput == {i1}
TwoInputs == {i1, i2}
=============================================================================
