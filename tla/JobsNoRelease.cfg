\* Crashes, pauses and database errors; no orderly shutdown.
CONSTANTS
    p1 = p1
    p2 = p2
    i1 = i1
    i2 = i2
    NoProc = NoProc
    NoLog = NoLog
    Procs <- MCProcs
    Logs <- MCLogs
    TTL = 2
    HB = 1
    Skew = 0
    MaxTime = 4
SPECIFICATION SpecNoRelease
INVARIANTS TypeOK FenceIdentifiesOwner FencedTxnByOwner FailoverBound
PROPERTY CheckedDispatchByOwner
CHECK_DEADLOCK FALSE
