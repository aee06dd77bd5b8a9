SPECIFICATION Spec
CONSTANTS
    x1 = x1
    x2 = x2
    s1 = s1
    s2 = s2
    f1 = f1
    f2 = f2
    d1 = d1
    d2 = d2
    c1 = c1
    u1 = u1
    u2 = u2
    Xorb = {}
    Shard = {s1}
    File = {f1}
    Digest = {d1}
    Zero = Zero
    Chunk = {c1}
    None = None
    Overwrite = FALSE
    MaxTime = 2
    Uploader = {u1, u2}
    Grace = 1
    MayFail = TRUE
    Stale = TRUE
    Anchors = {"both"}
    DryRuns = {FALSE}
    MaxDeletes = 0
    Budget = FALSE
    Faulty = {}
    Unlinkable = {f1, d1}
    Refs <- MCRefs
    FilesOf <- MCFilesOf
    ChunksOf <- MCChunksOf
    ShaOf <- MCShaOf
SYMMETRY MCSymmetry
INVARIANTS
    NoDangling
    GraceShields
