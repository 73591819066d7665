SPECIFICATION Spec
CONSTANTS
  Absent = Absent  Bad = Bad  Malformed = Malformed
  NodeModules <- Node
  Generated <- GeneratedNames
  MaxPatterns = 3
  MaxSegments = 3
  Count = 2
  Trees <- TwoRootTrees
  Manifest <- Package
  MaxEntries = 6
  MaxCandidates = 2
  MaxListed = 3
  MatchBounded = TRUE
INVARIANTS BudgetsHold NobodyStarves SilenceIsComplete
PROPERTY Terminates
