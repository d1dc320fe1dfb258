SPECIFICATION FairSpec
CONSTANTS
  n1 = n1
  n2 = n2
  Node = {n1, n2}
  Faults = {"crash", "expire"}
  Job = {1}
  JobValue <- RunAllOnly
  Fires <- CronFires
  MaxCatchUp = 2
  MaxTime = 4
  MaxChanges = 3
  MaxTerms = 2
INVARIANTS GapReplayed
PROPERTIES CatchesUp
