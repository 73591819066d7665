SPECIFICATION Spec
CONSTANTS
  p1 = p1  p2 = p2  c1 = c1  c2 = c2  p3 = p3  bad = bad
  t1 = t1  t2 = t2  t3 = t3  k1 = k1  k2 = k2
  named = named  odd = odd  plug = plug  dash = dash
  Projects <- OneProject
  Callers <- TwoCallers
  MaxRefreshes = 1
  MaxChanges = 3
  MaxWrites = 1
  ListedHosts <- SomeHosts
  Admissions <- SomeAdmissions
  Sidebars <- SomeSidebars
  UnsafeTexts = {odd}
  UnsafePluginIds = {dash}
  UnsafeIds = {bad}
  MaxListed = 2
  MaxEntries = 2
INVARIANT NeverRejected
