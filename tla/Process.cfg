SPECIFICATION FairSpec
CONSTANTS
  t1 = t1
  t2 = t2
  Ticket = {t1, t2}
  Leaky = {t2}
  MaxConcurrent = 1
CHECK_DEADLOCK FALSE
INVARIANTS TypeOK RunsWithinLimit DrainKeepsPromise
PROPERTIES LeaveEnds EveryRunEnds
