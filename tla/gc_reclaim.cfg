SPECIFICATION ReclaimSpec
CONSTANTS
    x1 = x1
    x2 = x2
    s1 = s1
    s2 = s2
    f1 = f1
    f0 = f0
    d1 = d1
    c1 = c1
    Xorb = {x1, x2}
    Shard = {s1, s2}
    File = {f0, f1}
    Digest = {d1}
    Zero = Zero
    Chunk = {c1}
    None = None
    Overwrite = FALSE
    MaxTime = 2
    Uploader = {}
    Grace = 1
    MayFail = FALSE
    Stale = FALSE
    Anchors = {"both", "files", "sha256"}
    DryRuns = {TRUE, FALSE}
    MaxDeletes = 1
    Budget = TRUE
    Faulty = {s1}
    Unlinkable = {}
    Refs <- MCRefs
    FilesOf <- MCFilesOf
    ChunksOf <- MCChunksOf
    ShaOf <- MCShaOf
PROPERTIES
    Reclaimed
    DeletesOnlyDead
