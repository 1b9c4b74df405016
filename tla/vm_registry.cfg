SPECIFICATION HostSpec
CONSTANTS
  Ids = {a}
  NumSlots = 1
  VMs = {v1, v2}
  Deleters = {d1, d2}
  Drainer = Drainer
  Killer = Killer
  None = None
  MaxDrains = 0
  MaxRestarts = 1
  Callers = {c1, c2}
  MaxCalls = 3
SYMMETRY Interchangeable
INVARIANT RegistryAgrees
INVARIANT NoOrphanProcess
INVARIANT ErasedStaysErased
PROPERTY RunningKeepsDisk
PROPERTY KeptUnlessAsked
PROPERTY SweepReaps
INVARIANT PowerSound
CHECK_DEADLOCK FALSE
