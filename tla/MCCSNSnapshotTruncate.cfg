SPECIFICATION Spec
CONSTANTS
    Writers = {w1, w2}
    Readers = {r1}
    MaxXid = 2
    MaxNumSnapVersion = 2
    SNAP_ERROR_COUNT = 3
    Nobody = Nobody
    Rare = {"defer", "cursor", "checkpoint"}
INVARIANT TruncatedBehindAll

