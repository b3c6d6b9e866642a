-------------------------- MODULE MCNameResolution --------------------------
EXTENDS NamesOfBodies, TLC
CONSTANTS x, y
Symmetry == Permutations(Name)
=============================================================================
