SPECIFICATION Spec
CONSTANTS
  c1 = c1
  c2 = c2
  c3 = c3
  v1 = v1
  Client = {c1, c2, c3}
  Content = {v1}
  MaxAttempts = 2
  Faults = {"rpc"}
  MaxId = 3
  MaxCalls = 2
SYMMETRY ClientSymmetry
CHECK_DEADLOCK FALSE
INVARIANTS TypeOK IdsAreUnique ContentionMeansProgress
