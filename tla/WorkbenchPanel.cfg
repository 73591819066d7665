SPECIFICATION PanelSpec
CONSTANTS
  t1 = t1  t2 = t2  m1 = m1  m2 = m2  f1 = f1  f2 = f2
  Details <- Pages
  Malformed <- BadPages
  Fingerprints <- TwoCatalogs
  MaxGeneration = 5
INVARIANTS BusyIsBacked ReplacedOnce
PROPERTIES OutdatedChangesNothing
