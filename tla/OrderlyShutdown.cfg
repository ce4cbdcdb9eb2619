\* The lease is released before the scheduler stops.
CONSTANTS
    p1 = p1
    p2 = p2
    i1 = i1
    i2 = i2
    NoProc = NoProc
    NoLog = NoLog
    Procs <- MCProcs
    Logs <- MCLogs
    TTL = 4
    HB = 1
    Skew = 1
    MaxTime = 3
SPECIFICATION SpecOrderly
INVARIANT OneActingLeader
CHECK_DEADLOCK FALSE
