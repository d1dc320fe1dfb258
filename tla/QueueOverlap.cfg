SPECIFICATION Spec
CONSTANTS
  n1 = n1
  n2 = n2
  j1 = j1
  j2 = j2
  Node = {n1, n2}
  Ticket = {1, 2}
  Job = {j1, j2}
  JobOf <- SameJob
  NoOverlap = {1, 2}
  Manual = {}
  MaxRetries <- OneRetry
  MaxConcurrent = 1
  ScanLimit = 2
  SweepLimit = 2
  Sweepers = {}
  Faults = {"crash", "rpc"}
  MaxFires = 1
  MaxEpoch = 2
SYMMETRY NodeSymmetry
INVARIANTS NoOverlappingRuns LockHasClaim
