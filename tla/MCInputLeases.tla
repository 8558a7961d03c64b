--------------------------- MODULE MCInputLeases ---------------------------
\* Two owners and the ownerless caller compete for two inputs.
EXTENDS InputLeases, TLC

Symmetry == Permutations(Owners) \cup Permutations(Outpoints)

=============================================================================
