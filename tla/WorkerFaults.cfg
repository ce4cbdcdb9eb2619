SPECIFICATION Spec
SYMMETRY MCSymmetry
CONSTANTS
  j1 = j1
  j2 = j2
  w1 = w1
  w2 = w2
  h1 = h1
  h2 = h2
  NoJob = NoJob
  Jobs = {j1}
  Workers = {w1, w2}
  Hosts = {h1, h2}
  HostOf <- Apart
  Slots = 0
  MaxAttempts = 2
  DrainLimit = 1
  Faults = {"stop", "crash", "late", "slow", "requeue", "redis", "db", "cleanup", "operator"}
  MaxFaults = 2
  MaxQueueSize = 2
INVARIANTS TypeOK HandlerExclusive AttemptsBounded
CHECK_DEADLOCK FALSE
