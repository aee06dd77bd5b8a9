SPECIFICATION Spec
CONSTANTS
    k1 = k1
    k2 = k2
    Key = {k1, k2}
    Chunks <- MCChunks
    Order <- MCOrder
    Opening <- MCOpening
    Worker = {w1, w2}
    None = None
    MaxFaults = 1
INVARIANTS
    ReadsExact
    CachesSound
PROPERTIES
    AllReturn
CHECK_DEADLOCK FALSE
