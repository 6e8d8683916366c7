CONSTANTS
    Procs = {p1, p2, p3}
    Locks = {l1}
    Vals = {0, 1}
    ClearVal = 0
    LW_VAL_EXCLUSIVE = 4
    MAX_SIMUL_LWLOCKS = 1
    Usage = {"Acquire", "ConditionalAcquire", "AcquireOrWait", "WaitForVar", "UpdateVar", "Release", "ReleaseClearVar"}
    MaxSignals = 0
    BufferLocks = {b1, b2, b3}
    NoLock = NoLock
SPECIFICATION MCSpec
SYMMETRY Symmetry
INVARIANTS
    TypeOK
    MutualExclusion
    NoLostWakeup
    VarWaiterInformed
    OneOwnerEach
