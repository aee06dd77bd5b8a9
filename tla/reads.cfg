SPECIFICATION Spec
CONSTANTS
    s1 = s1
    s2 = s2
    k1 = k1
    k2 = k2
    Entry = {k1, k2}
    Object = {s1, s2}
    EntriesOf <- MCEntriesOf
    Lookup = {l1, l2}
    Absent = Absent
    MaxCached = 1
    MaxChanges = 2
    None = None
    Hash = {h1, h2}
    Reader = {r1, r2}
    Mapping <- MCMapping
    MaxEntries = 1
    Backends <- MCBackends
    MaxAcquires <- MCMaxAcquires
    Nil = Nil
    TermLists <- MCTermLists
    Window = 3
    Worker = {w1, w2}
    ReadSizes = {1, 3}
    FetchFails = TRUE
INVARIANTS
    CachedCurrent
    MappingsSound
    CopiesCounted
    FramesSound
    OrderedBytes
PROPERTIES
    FinalWithheld
    AcquireReturns
    FileReturns
