SPECIFICATION WalkSpec
CONSTANTS
  Day = 8
  Week = 4
  Months <- MCMonths
  SearchLimit = 14
  MinInterval = 2
  Horizon = 160
  Exprs <- MCExprs
  Zones <- MCZones
CHECK_DEADLOCK FALSE
INVARIANT NextIsFirst
