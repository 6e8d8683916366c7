--------------------------- MODULE MCLWLockHandoff ---------------------------
EXTENDS LWLockHandoff, TLC
Exclusive == {"LW_EXCLUSIVE"}
Shared == {"LW_SHARED"}
Symmetry == Permutations(Threads) \cup Permutations(Locks)
=============================================================================
