\* A stale leader's unchecked dispatch.
CONSTANTS
    p1 = p1
    p2 = p2
    i1 = i1
    i2 = i2
    NoProc = NoProc
    NoLog = NoLog
    Procs <- MCProcs
    Logs <- MCLogs
    TTL = 2
    HB = 1
    Skew = 0
    MaxTime = 3
SPECIFICATION SpecNoRelease
PROPERTY DispatchByOwner
CHECK_DEADLOCK FALSE
