SPECIFICATION Spec
CONSTANTS
  p2 = p2
  h1 = h1
  s1 = s1
  t1 = t1
  t2 = t2
  r1 = r1
  Pane = {p1}
  Host = {h1}
  Status = {working, idle}
  Active = {working}
  Gone = Gone
  NoProject = NoProject
  NoScope = NoScope
  HostOf <- MCHostOf
  SpaceOf <- MCSpaceOf
  TabOf <- MCTabOf
  Repo <- MCRepo
  Checkout <- MCCheckout
  Window = {w1}
  MaxColumns = 2
  MaxStored = 2
  MaxBorn = 1
INVARIANTS
  DocumentsAreConsistent
  HiddenByChoice
  StaysOnlyIfExcused
PROPERTY
  LeavesOnlyOnActivation
