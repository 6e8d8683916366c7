CONSTANTS
    p1 = p1
    p2 = p2
    p3 = p3
    l1 = l1
    l2 = l2
    Procs = {p1, p2, p3}
    Locks = {l1, l2}
    Vals = {0, 1}
    ClearVal = 0
    LW_VAL_EXCLUSIVE = 4
    MAX_SIMUL_LWLOCKS = 2
    Usage = {"Acquire", "ConditionalAcquire", "AcquireOrWait", "WaitForVar", "UpdateVar", "Release", "ReleaseClearVar", "ReleaseAll"}
    MaxSignals = 1
    Scopes <- BothScopes
SPECIFICATION LiveSpec
INVARIANTS
    LockWordExact
    OneLinkPerProc
    SignalsConserved
PROPERTIES
    ImplementsRWLock
    EveryCallReturns
CHECK_DEADLOCK FALSE
