\* Room for one agent: an eviction, a deletion with a later hire, and a compaction
\* race two senders.
SPECIFICATION Spec
CONSTANTS
  Agents = {boss, ada}
  Boss = boss
  Specialists = {ada}
  Instances = {i1, i2, i3}
  Callers = {c1, c2}
  Messages = {m1, m2}
  MaxLive = 1
  InboxDepth = 1
  None = None
  MaxEvict = 1
  MaxUpdate = 0
  MaxDelete = 1
  MaxSkill = 0
  MaxCompact = 1
SYMMETRY Pointers
INVARIANTS HandledOnce MapIsLive
CHECK_DEADLOCK FALSE
