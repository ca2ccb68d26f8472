SPECIFICATION MCSpec
CONSTANTS
  h1 = h1
  h2 = h2
  p1 = p1
  i1 = i1
  i2 = i2
  a1 = a1
  a2 = a2
  a3 = a3
  k1 = k1
  k2 = k2
  Host = {h1, h2}
  Pool = {p1}
  Image = {i1, i2}
  AssignmentId = {a1, a2, a3}
  RolloutId = {r1}
  IdemKey = {k1, k2}
  Nothing = Nothing
  Slots <- MCSlots
  Fits <- AllFit
  FirstImage = i1
  FirstRollback = i2
  Loaded <- MCLoaded
  LoadedClock = 2
  MaxRevision = 5
  MaxPlan = 2
  MaxPlans = 2
  MaxTime = 2
  Uploader = {u1, u2}
  Sealed <- MCSealed
  MaxRetries = 2
  MaxFaults = 2
  Material = {m1, m2}
  Ref = {x1}
  LastTime = 2
  MaxWrites = 3
  Miss = Miss
CHECK_DEADLOCK FALSE
INVARIANTS
  CapacityIsKept
  AuditReplaysToState
  KeysApplyOnce
  PlansKeepTheirWord
  ReportIsHonest
  ReuseIsSound

  
