\* A released lease is re-inserted with fence 1.
CONSTANTS
    p1 = p1
    p2 = p2
    NoProc = NoProc
    Procs <- MCProcs
    TTL = 2
    HB = 1
    Skew = 0
    MaxTime = 4
SPECIFICATION LeaseSpec
INVARIANT FencedTxnByOwner
CHECK_DEADLOCK FALSE
