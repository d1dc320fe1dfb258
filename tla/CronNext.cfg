SPECIFICATION Spec
CONSTANTS
  Second = 2
  Minute = 2
  Hour = 4
  Day <- Days
  MonthOf <- Months
  DomOf <- Doms
  DowOf <- Dows
  Dow = 3
  DomMax = 3
  MonMax = 2
  Offset = 4
  FourYears = 64
  Expr <- AllExpressions
  From <- FirstDays
  Count = 3
CHECK_DEADLOCK FALSE
INVARIANTS TypeOK NoFireSkipped FoundIsAFire
