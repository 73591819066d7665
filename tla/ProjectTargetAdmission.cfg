SPECIFICATION Spec
CONSTANTS
  outer = outer  inner = inner  other = other
  both = both  deep = deep  far = far
  Roots <- ThreeRoots
  Packages <- TwoPackages
  Paths <- AllPaths
  Inside <- InPaths
  Sees <- SeesHere
INVARIANTS NoOrphan HonestGroups
PROPERTY KeepsWhatAProjectSees
