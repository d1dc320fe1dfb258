SPECIFICATION FairSpec
CONSTANTS
  n1 = n1
  n2 = n2
  j1 = j1
  j2 = j2
  Node = {n1, n2}
  Ticket = {1, 2}
  Job = {j1, j2}
  JobOf <- SameJob
  NoOverlap = {}
  Manual = {}
  MaxRetries <- OneRetry
  MaxConcurrent = 1
  ScanLimit = 1
  SweepLimit = 2
  Sweepers = {}
  Faults = {"crash"}
  MaxFires = 1
  MaxEpoch = 2

INVARIANTS NoConcurrentRuns LiveRunKeepsClaim OneReportPerAttempt
PROPERTIES ImplementsDelivery EveryFireResolved
