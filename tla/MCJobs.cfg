SPECIFICATION JobsSpec
CONSTANTS
  i1 = i1
  i2 = i2
  h1 = h1
  h2 = h2
  Instance = {i1, i2}
  Job = {j1}
  Image = {g1, g2}
  Host = {h1, h2}
  Key = {k1, k2, k3, k4}
  Nothing = Nothing
  HostOf <- MCHostOf
  Adapters <- MCAdapters
  Capability <- MCCapability
  WarmMax = 1
  Outcome = {"disconnected"}
  MaxFaults = 1
  GateOnly = FALSE
SYMMETRY NameSymmetry
CHECK_DEADLOCK FALSE
INVARIANTS
  DestroyedIsGone
  ReplacedIsClean
  OneJobPerContainer
