SPECIFICATION FairSpec
CONSTANTS
  j1 = j1
  j2 = j2
  w1 = w1
  w2 = w2
  h1 = h1
  h2 = h2
  NoJob = NoJob
  Jobs = {j1}
  Workers = {w1, w2}
  Hosts = {h1, h2}
  HostOf <- Apart
  Slots = 0
  MaxAttempts = 2
  DrainLimit = 1
  Faults = {"stop"}
  MaxFaults = 1
  MaxQueueSize = 4
INVARIANTS PendingIsDeliverable RedeliveryBounded
PROPERTIES SuccessIsFinal JobEnds
CHECK_DEADLOCK FALSE
