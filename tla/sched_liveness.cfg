SPECIFICATION FairSpec
CONSTANTS
  Day = 4
  Week = 4
  Months <- MCMonths
  SearchLimit = 4
  Ids = {s1}
  Agents = {a1}
  Exprs <- Lasts
  Zones <- MCZones
  UTC <- Greenwich
  Grace = 1
  MaxTime = 6
  MaxMoves = 0
  MaxCrashes = 0
  MaxFaults = 0
  MaxHires = 1
  MaxSends = 1
  Gone = Gone
CHECK_DEADLOCK FALSE
PROPERTY LastRunSettles
