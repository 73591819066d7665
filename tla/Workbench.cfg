SPECIFICATION Spec
CONSTANTS
  r1 = r1
  r2 = r2
  r3 = r3
  s1 = s1
  s2 = s2
  q1 = q1
  q2 = q2
  Starts <- TwoStarts
  Projects <- AllRoots
  Origins <- SomeOrigins
  Slots <- TwoSlots
  Roots <- AllRoots
  Config <- Configs
  Looks <- SomeLooks
  MaxCandidates = 2
  Visitable <- Complete
  Links <- SomeLinks
  Requests <- TwoRequests
  MaxChanges = 1
CHECK_DEADLOCK FALSE
INVARIANTS
  LedgerTellsSchema
  OpenHasWholeSchema
  SoundStartsSucceed
  RestartKeepsIds
  ShownIsAsked
PROPERTIES
  RefusalChangesNothing
  PageSettles
