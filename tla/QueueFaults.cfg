SPECIFICATION Spec
CONSTANTS
  n1 = n1
  n2 = n2
  j1 = j1
  j2 = j2
  Node = {n1, n2}
  Ticket = {1}
  Job = {j1, j2}
  JobOf <- SameJob
  NoOverlap = {}
  Manual = {}
  MaxRetries <- NoRetry
  MaxConcurrent = 1
  ScanLimit = 2
  SweepLimit = 2
  Sweepers = {n1, n2}
  Faults = {"crash", "expire", "rpc"}
  MaxFires = 1
  MaxEpoch = 2
SYMMETRY NodeSymmetry
INVARIANTS TypeOK ClaimedStaysQueued NoLostFire
