SPECIFICATION Spec
CONSTANTS
  t1 = t1
  t2 = t2
  c1 = c1
  created = created
  updated = updated
  reconciled = reconciled
  Targets <- MCTargets
  EventTypes <- MCEventTypes
  Created = created
  Consumers <- MCConsumers
  MaxEvents = 4
  PageLimits <- MCPageLimits
  MaxSequence = 7
INVARIANTS
  PhysicalBound
  WindowIsSuffix
  NoGap
PROPERTIES
  ImplementsStream
CHECK_DEADLOCK FALSE
