SPECIFICATION FairSpec
CONSTANTS
  n1 = n1
  n2 = n2
  b1 = b1
  b2 = b2
  Node = {n1}
  Key = {1, 2}
  Body = {b1, b2}
  PageLimit = 2
  Batch = 1
  Collectors = {n1}
  Faults = {"crash", "watch", "insert", "rpc"}
  MaxPuts = 2
  MaxBreaks = 2
CHECK_DEADLOCK FALSE
INVARIANTS TypeOK NoGap FirstResultRecorded
PROPERTIES EveryRunRecorded
