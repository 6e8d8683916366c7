---------------------------- MODULE MCCSNSnapshot ----------------------------
EXTENDS CSNSnapshot, TLC
Symmetry == Permutations(Writers)
=============================================================================
