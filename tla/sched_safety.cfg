SPECIFICATION Spec
CONSTANTS
  Day = 4
  Week = 4
  Months <- MCMonths
  SearchLimit = 4
  Ids = {s1}
  Agents = {a1}
  Exprs <- AllExprs
  Zones <- MCZones
  UTC <- Greenwich
  Grace = 1
  MaxTime = 6
  MaxMoves = 1
  MaxCrashes = 1
  MaxFaults = 1
  MaxHires = 2
  MaxSends = 0
  Gone = Gone
CHECK_DEADLOCK FALSE
INVARIANT CancelledStaysGone
INVARIANT NotRefired
INVARIANT OnceRunsOnce
