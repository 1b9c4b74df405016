SPECIFICATION FairSpec
CONSTANTS
  Ids = {a}
  NumSlots = 1
  VMs = {v1}
  Deleters = {d1}
  Drainer = Drainer
  Killer = Killer
  None = None
  MaxDrains = 1
  MaxRestarts = 1


PROPERTY CrashFreesSlot
PROPERTY DeleteAnswered
PROPERTY DrainReleases
CHECK_DEADLOCK FALSE
