SPECIFICATION Spec
CONSTANTS
    Blocks = 3
    Retries = 1
    StreamBlocks = 2
    Tries = 2
    MaxBeats = 2
    MaxTroubles = 2
    BodyLen = 2
    Length = 2
    Found <- MCFound
    MaxDownloads = 3
    ka = ka
    kb = kb
    kc = kc
    kd = kd
    Size <- MCSize
    Packed <- MCPacked
    MaxXorbSize = 4
    MaxChunksPerXorb = 8
    Stored <- MCStored
    Uploads <- MCUploads
    Header <- MCHeader
    Setting <- MCSetting
    Request = {q1, q2}
    Garbage <- MCGarbage
    Owner <- MCOwner
    Configured = {"spools", "mirror"}
    Bounds <- MCBounds
INVARIANTS
    XorbUploadSound
    ShardUploadSound
    DownloadSound
    ResponsesSound
    DeliveredExact
    NeverStalls
    DoneSwept
PROPERTIES
    CallsReturn
CHECK_DEADLOCK FALSE
