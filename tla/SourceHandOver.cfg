SPECIFICATION Spec
CONSTANTS
  c1 = c1
  c2 = c2
  Callers = {c1, c2}
  Texts <- SomeTexts
  Scenes <- SomeScenes
  MaxTrustedRoots = 2
  Forbidden = {"out"}
  MaxRows = 2
  Plugin = "p"
  SourceRoot = "pkg"
INVARIANTS
  HandedOverAsItIs
  HandedOverOnce
  UndisturbedIsGiven
  ObservationsAreAcceptable
  VerdictTells
  NothingLeftRunning
PROPERTY CommandAnswered
CHECK_DEADLOCK FALSE
