SPECIFICATION Spec
CONSTANTS
    Task = {t1, t2}
    Client = {t1}
    Source <- MCSource
    Upstream <- MCUpstream
    Inode <- MCInode
    None = None
    Failed = Failed
    MaxIngests = 1
    MaxAttempts = 2
    MaxAccepts = 2
    MaxEvents = 1
INVARIANTS
    SpoolSound
PROPERTIES
    SweepSparesFlights
    Delivers
    Settles
CHECK_DEADLOCK FALSE
