SPECIFICATION LoopSpec
CONSTANTS
  h1 = h1
  h2 = h2
  p1 = p1
  p2 = p2
  i1 = i1
  i2 = i2
  a1 = a1
  a2 = a2
  a3 = a3
  b1 = b1
  b2 = b2
  Host = {h1, h2}
  Pool = {p1, p2}
  Image = {i1, i2}
  AssignmentId = {a1, a2, a3, b1, b2}
  RolloutId = {}
  IdemKey = {k1}
  Nothing = Nothing
  Slots <- MCSlots
  Fits <- MCFits
  FirstImage = i1
  FirstRollback = i2
  Loaded <- MCLoaded
  LoadedClock = 0
  MaxRevision = 9
  MaxPlan = 1
  MaxPlans = 0
  MaxTime = 0
  Order <- MCOrder
  PoolOrder <- MCPools
  RecIds <- MCRecIds
  AllowedPools <- MCAllowed
  WarmMin <- MCWarm
  MaxParallel <- MCParallel
  max_drains = 2
  max_replacements = 1
  max_host_mutations = 2
  Lifetime = 1
  ClockSkew = 1
  Ahead <- MCAhead
  MaxClock = 1
  MaxProposals = 2
  MaxHeld = 2
  Asking = {h2}
CHECK_DEADLOCK FALSE
INVARIANTS
  BatchFits
PROPERTIES
  DisruptionBounded
  AcceptedGoesForward
  Settles
