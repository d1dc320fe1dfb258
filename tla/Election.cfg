SPECIFICATION FairSpec
CONSTANTS
  n1 = n1
  n2 = n2
  Node = {n1, n2}
  Faults = {"crash", "expire", "rpc"}
  MaxEpoch = 3
CHECK_DEADLOCK FALSE
INVARIANTS TypeOK FlagBacked
PROPERTIES ImplementsLeadership LeaderElected KnownConverges MembersConverge
