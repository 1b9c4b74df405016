\* No symmetry under liveness, so one agent and one sender; two instances exist
\* at once, and every way of being stopped or marked stale can happen.
SPECIFICATION FairSpec
CONSTANTS
  Agents = {boss}
  Boss = boss
  Specialists = {}
  Instances = {i1, i2}
  Callers = {c1}
  Messages = {m1, m2}
  MaxLive = 1
  InboxDepth = 1
  None = None
  MaxEvict = 1
  MaxUpdate = 1
  MaxDelete = 0
  MaxSkill = 1
  MaxCompact = 0
PROPERTIES InboxDrains ReloadHonoured
CHECK_DEADLOCK FALSE
