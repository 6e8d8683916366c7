SPECIFICATION EndSpec
CONSTANTS
    w1 = w1
    r1 = r1
    Writers = {w1, w2}
    Readers = {r1, r2}
    MaxXid = 2
    MaxNumSnapVersion = 2
    SNAP_ERROR_COUNT = 3
    Nobody = Nobody
    Rare = {}
    Procs = {p1, p2, p3}
    INVALID_PGPROCNO = INVALID_PGPROCNO
    MaxRuns = 2
    ForeignTargets = {p1}
    MaxForeign = 1
INVARIANTS OneLeaderEach SignalsConserved
PROPERTIES WaitsEnd ImplementsXidEnd EveryEndReturns
CHECK_DEADLOCK FALSE
