\* Two writers of every store that has writers, one compaction or two, a fault
\* of each kind.
SPECIFICATION Spec
CONSTANTS
  Spenders = {a1, a2}
  Nobody = nobody
  Counted = {m1, turns}
  Turns = turns
  KeepDays = 0
  MaxDay = 3
  MaxBooked = 2
  MaxRestarts = 1
  Inodes = {1, 2, 3, 4}
  NoFile = NoFile
  Unreadable = Unreadable
  MaxIterations = 2
  CompactAt = 4
  KeepDivisor = 4
  MaxTurns = 4
  MaxFaults = 2
  Torn = Torn
  Handlers = {h1, h2}
  MaxNumber = 3
  SnapshotKeep = 1
  MaxUnwell = 2
  NoOne = 0
  Instances = {1, 2}
  LogBuffer = 1
  MaxEvents = 3
  MaxMishaps = 1
  MaxConnects = 2
  Pollers = {p1, p2}
  Ids <- OpusIds
  priceTable <- Rates
  Charged = 2
  Slash = "/"
  Dot = "."
  Dash = "-"
  MaxCalls = 2
  MaxDeletes = 1
  MaxPolls = 2
CHECK_DEADLOCK FALSE
INVARIANTS BillIsKept ConversationSound NumbersKeep SpendIsPriced
