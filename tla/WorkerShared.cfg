SPECIFICATION Spec
SYMMETRY MCSymmetry
CONSTANTS
  j1 = j1
  j2 = j2
  w1 = w1
  w2 = w2
  h1 = h1
  h2 = h2
  NoJob = NoJob
  Jobs = {j1, j2}
  Workers = {w1, w2}
  Hosts = {h1}
  HostOf <- Together
  Slots = 1
  MaxAttempts = 1
  DrainLimit = 1
  Faults = {"stop", "requeue"}
  MaxFaults = 2
  MaxQueueSize = 1
INVARIANT PendingIsDeliverable
CHECK_DEADLOCK FALSE
