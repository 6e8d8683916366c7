------------------------------ MODULE MCSInval ------------------------------
EXTENDS SInval
CONSTANTS m1, m2
Pair == {<<m1, m2>>}
=============================================================================
