SPECIFICATION FairSpec
CONSTANTS
    p1 = p1
    p2 = p2
    p3 = p3
    r1 = r1
    r2 = r2
    Procs = {p1, p2, p3}
    Rels = {r1, r2}
    Modes <- MCModes
    Settings <- MCSettings
    Buckets = {"b"}
    Bucket <- OneBucket
    FPSlots = 1
    Nobody = Nobody
    MaxPosts = 1
INVARIANTS
    NoConflict
    HeldIsKnown
    CountsExact
    NoMissedGrant
    DeadlockSeen
PROPERTIES
    DeadlockReal
    WaitsEnd
