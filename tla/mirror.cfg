SPECIFICATION Spec
CONSTANTS
    MaxReq = 2
    Path = {p1}
    Real = {c1, c2}
    Version = {v1, v2}
    Pseudo = Pseudo
    Branch = Branch
    None = None
    MaxFailed = 1
    MaxCalls = 2
    MaxEvents = 1
INVARIANTS
    IndexSound
    DiskSound
PROPERTIES
    SweepSparesNew
    Answered
CHECK_DEADLOCK FALSE
