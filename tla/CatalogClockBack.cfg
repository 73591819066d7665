SPECIFICATION Spec
CONSTANTS
  i1 = i1
  i2 = i2
  i3 = i3
  i4 = i4
  alone = alone
  j1 = j1
  j2 = j2
  outer = outer
  inner = inner
  a = a
  b = b
  c = c
  u1 = u1
  u2 = u2
  Ids <- AllIds
  Roots <- AllRoots
  Projects <- Nested
  Inside <- Placement
  Contents <- Varied
  Callers <- TwoCallers
  Casts <- OneLongLife
  MaxTargets = 2
  MaxHistory = 2
  MaxEvents = 5
  MonotoneClock = FALSE
CHECK_DEADLOCK FALSE
INVARIANTS
  IntegrityHolds
