SPECIFICATION Spec
CONSTANTS
    Threads = {t1, t2, t3}
    Locks = {l1, l2, l3}
    NoLock = NoLock
    Modes <- Shared
    MAX_SIMUL_LWLOCKS = 2
    LW_VAL_EXCLUSIVE = 4
INVARIANT WordMatchesGrants
SYMMETRY Symmetry
