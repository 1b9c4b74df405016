\* Gated calls of one tool, two with every interrupt or three without one.
SPECIFICATION GateSpec
CONSTANTS
  a1 = a1
  a2 = a2
  a3 = a3
  q = q
  bash = bash
  Calls = {a1, a2, a3}
  Tools = {bash}
  ToolOf <- ThreeApprovals
  None = None
  MaxUses = 1
  MaxTurns = 2
SYMMETRY Alike
INVARIANTS OneAnswerer GrantNotOverspent HandIsLive
CHECK_DEADLOCK FALSE
