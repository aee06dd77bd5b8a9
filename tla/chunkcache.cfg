SPECIFICATION MCSpec
CONSTANTS
    p1 = p1
    p2 = p2
    u1 = u1
    u2 = u2
    u3 = u3
    Proc = {p1, p2}
    User = {u1, u2, u3}
    Owner <- MCOwner
    N = 3
    Small = {0}
    Wanted <- MCWanted
    Inode <- MCInode
    Capacity = 2
    None = None
    MaxOpens = 2
    MaxEvents = 1
INVARIANTS
    WritersSound
    QuietMerged
PROPERTIES
    AdoptsSealed
    LastDoneEvicts
CHECK_DEADLOCK FALSE
