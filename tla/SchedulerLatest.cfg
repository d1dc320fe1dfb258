SPECIFICATION Spec
CONSTANTS
  n1 = n1
  n2 = n2
  Node = {n1, n2}
  Faults = {}
  Job = {1}
  JobValue <- RunLatestOnly
  Fires <- CronFires
  MaxCatchUp = 2
  MaxTime = 3
  MaxChanges = 1
  MaxTerms = 1
INVARIANTS GapReplayed
