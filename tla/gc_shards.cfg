SPECIFICATION Spec
CONSTANTS
    x1 = x1
    s1 = s1
    s2 = s2
    f1 = f1
    f0 = f0
    d1 = d1
    u1 = u1
    Xorb = {x1}
    Shard = {s1, s2}
    File = {f0, f1}
    Digest = {d1}
    Zero = Zero
    Chunk = {}
    None = None
    Overwrite = TRUE
    MaxTime = 2
    Uploader = {u1}
    Grace = 1
    MayFail = FALSE
    Stale = FALSE
    Anchors = {"sha256"}
    DryRuns = {FALSE}
    MaxDeletes = 1
    Budget = FALSE
    Faulty = {s2}
    Unlinkable = {f1, d1}
    Refs <- MCRefs
    FilesOf <- MCFilesOf
    ChunksOf <- MCChunksOf
    ShaOf <- MCShaOf
INVARIANTS
    ShardsWhole
PROPERTIES
    ReadableKept
