SPECIFICATION Spec
CONSTANTS
  n1 = n1
  n2 = n2
  Node = {n1, n2}
  Faults = {"crash", "rpc"}
  Job = {1, 2}
  JobValue <- AllPolicies
  Fires <- CronFires
  MaxCatchUp = 2
  MaxTime = 3
  MaxChanges = 3
  MaxTerms = 2
SYMMETRY NodeSymmetry
INVARIANTS TypeOK
PROPERTIES EnqueuedOnce WatermarkAdvances
