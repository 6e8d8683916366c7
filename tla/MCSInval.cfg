SPECIFICATION Spec
CONSTANTS
    m1 = m1
    m2 = m2
    NoMsg = NoMsg
    Inactive = Inactive
    Overrun = Overrun
    Msgs = {m1, m2}
    maxBackends = 2
    maxreserveBackends = 1
    MAXNUMMESSAGES = 3
    MSGNUMWRAPAROUND = 3
    CLEANUP_MIN = 1
    CLEANUP_QUANTUM = 1
    SIG_THRESHOLD = 1
    WRITE_QUANTUM = 1
    MAXINVALMSGS = 2
    SendOnlyChoices = {TRUE, FALSE}
    Batches <- Pair
INVARIANTS PositionsInOrder NothingMissed ReceivesAll SignalNotStuck
PROPERTIES CleanupMakesRoom ImplementsQueues
