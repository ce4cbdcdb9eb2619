\* Crashes, pauses, database errors and orderly shutdown.
CONSTANTS
    p1 = p1
    p2 = p2
    NoProc = NoProc
    Procs <- MCProcs
    TTL = 2
    HB = 1
    Skew = 0
    MaxTime = 3
SPECIFICATION LeaseSpec
SYMMETRY MCSymmetry
INVARIANTS LeaseTypeOK LeaseExclusive PunctualLeaderOwns
CHECK_DEADLOCK FALSE
