SPECIFICATION Spec
CONSTANTS
    a = a
    b = b
    c = c
    s1 = s1
    s2 = s2
    Session = {s1, s2}
    Worker = {1, 2}
    Chunk = {a, b, c}
    File <- MCFile
    Files <- MCFiles
    Size <- MCSize
    MaxXorbSize = 2
    MaxChunksPerXorb = 8
    Sampled = {}
    Capacity = 2
    MaxUploads = 2
    MaxEvents = 1
INVARIANTS
    ShardSound
    CallSettled
PROPERTIES
    CancelReturns
CHECK_DEADLOCK FALSE
