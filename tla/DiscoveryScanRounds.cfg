SPECIFICATION Spec
CONSTANTS
  Absent = Absent  Bad = Bad  Malformed = Malformed
  NodeModules <- Node
  Generated <- GeneratedNames
  MaxPatterns = 3
  MaxSegments = 3
  Count = 3
  Trees <- ThreeRootTrees
  Manifest <- Package
  MaxEntries = 7
  MaxCandidates = 3
  MaxListed = 3
  MatchBounded = FALSE
INVARIANT SilenceIsComplete
